---- MODULE Spec2Model ----
(***************************************************************************)
(* Verification model of the off-chain payment protocol reference          *)
(* implementation: the VASP pair channel (src/src/models.py), the command  *)
(* executor (src/src/executor.py and src/src/offchainapi/executor.py), the *)
(* payment status logic (src/src/offchainapi/payment_logic.py).            *)
(*                                                                         *)
(* Spec      two endpoints of one channel, a lossy/duplicating/reordering  *)
(*           network, crash and reload from the last persist().  A handler *)
(*           runs to its end, its persist() included, before the next      *)
(*           step; an endpoint crashes between two handlers.               *)
(* SpecLive  the same channel over a network that delivers each message    *)
(*           once and loses at most MaxLoss of them, with fair delivery    *)
(*           and fair retransmission.                                      *)
(* SpecChannel  one endpoint of the channel and an arbitrary peer: any      *)
(*           request and any response is handed to it.                     *)
(* SpecExec  the two executors driven alone by arbitrary calls of          *)
(*           sequence_next_command, set_success and set_fail.              *)
(* SpecRole  the client/server roles of two endpoints over all pairs of    *)
(*           parent addresses.                                             *)
(* SpecPay   one payment at one VASP: peer commands checked by             *)
(*           check_new_payment / check_new_update, local processing by     *)
(*           payment_process_async.                                        *)
(* SpecRef   the reference_id of one payment: new payments and updates     *)
(*           with any reference_id, checked by check_command.              *)
(* SpecProc  the payment processor driven alone: process_command, the      *)
(*           steps of its tasks, cancellation and restart.                 *)
(* SpecProcLive  the same processor when processing meets no error, with   *)
(*           every task that can run eventually run.                       *)
(* SpecIndex the reference-id index of the processor over the sequences    *)
(*           of commands its executors can hand it.                        *)
(* SpecAny   the channel of Spec when either VASP may propose any command, *)
(*           so that one VASP proposes conflicting commands.               *)
(* SpecRuns  the processor when retry_process_commands is called while    *)
(*           tasks run: several runs for one obligation, interleaved.      *)
(***************************************************************************)
EXTENDS Integers, Sequences, FiniteSets, TLC

(***************************************************************************)
(* Bounds of the model.                                                    *)
(***************************************************************************)
\* number of commands the two endpoints propose with sequence_command_local
MaxProposals == 3
\* length of pending_requests after which no further request is delivered
MaxPending == 2
\* number of crash-and-reload events of one endpoint
MaxCrash == 1

\* messages the network may lose when every other message is delivered
MaxLoss == 1

\* calls made on the executors driven alone
MaxCalls == 5

\* seq and command_seq of the messages of an arbitrary peer are in 0 .. MaxSeq
MaxSeq == 1

\* each channel's executor hands the processor at most MaxProcessed commands
MaxProcessed == 1

\* the VASP of the processor restarts at most MaxRestarts times
MaxRestarts == 1

\* characters of a reference_id; updates of one payment (SpecRef)
MaxRefLen == 3
MaxUpdates == 2

\* parent addresses are drawn from 0 .. MaxAddress
MaxAddress == 9

\* times each endpoint evaluates its role
MaxEvaluations == 2

(***************************************************************************)
(* The two endpoints and their parent addresses.  LibraAddress is an       *)
(* interface in models.py (last_bit, greater_than_or_equal); an address is *)
(* modelled as a natural number, its last bit is the number modulo 2 and   *)
(* the order is the order of the naturals.                                 *)
(***************************************************************************)
Endpoints == {"A", "B"}

Other(e) == IF e = "A" THEN "B" ELSE "A"

ParentAddress == [A |-> 2, B |-> 3]

last_bit(a) == a % 2

greater_than_or_equal(a, b) == a >= b

XorBit(x, y) == IF x = y THEN 0 ELSE 1

is_client_own_bit(myself_address, other_address) ==
    LET bit == last_bit(myself_address)
    IN  IF bit = 0
        THEN greater_than_or_equal(myself_address, other_address)
        ELSE ~ greater_than_or_equal(myself_address, other_address)

is_client(myself_address, other_address) ==
    LET bit == XorBit(last_bit(myself_address), last_bit(other_address))
    IN  IF bit = 0
        THEN greater_than_or_equal(myself_address, other_address)
        ELSE ~ greater_than_or_equal(myself_address, other_address)

is_server(myself_address, other_address) ==
    ~ is_client(myself_address, other_address)

IsClient(e) == is_client(ParentAddress[e], ParentAddress[Other(e)])

IsServer(e) == is_server(ParentAddress[e], ParentAddress[Other(e)])

(***************************************************************************)
(* Commands.  A command consumes the versions it depends on and creates    *)
(* new versions; version identifiers are unique, so no two commands        *)
(* create the same version.  Commands 1,2 are proposed by A and 3,4 by B;  *)
(* commands 2 and 4 both consume the version created by command 1.         *)
(***************************************************************************)
Versions == 1 .. 4

Commands == 1 .. 4

Origin == <<"A", "A", "B", "B">>

depend_on == <<{}, {1}, {}, {1}>>

creates == <<{1}, {2}, {3}, {4}>>

get_dependencies(c) == depend_on[c]

new_object_versions(c) == creates[c]

(***************************************************************************)
(* The executor of src/src/executor.py (the one the channel of models.py   *)
(* drives: sequence_next_command takes the flag own).                      *)
(***************************************************************************)
\* the exceptions of the model: the assertion of set_success and set_fail,
\* the assertion of handle_request (line 191), "assert False" of
\* handle_response (line 289), a lookup of a version that is not in the store,
\* of an index beyond the sequence, a comparison of None with an integer, and
\* the executor's own ExecutorCannotSequence
ErrLastConfirmed == "AssertionError: seq_no == last_confirmed"

ErrCommandSeq == "AssertionError: command_seq == next_final_sequence()"

ErrProtocol == "AssertionError: unmanaged protocol error"

ErrKey == "KeyError: object_store"

ErrIndex == "IndexError: seq"

ErrNoneSeq == "TypeError: command_seq is None"

ErrCannotSequence == "ExecutorCannotSequence"

InitExecutor ==
    [seq |-> << >>, last_confirmed |-> 0, object_store |-> << >>]

next_seq(ex) == Len(ex.seq)

StorePut(store, v, obj) ==
    [x \in (DOMAIN store) \cup {v} |-> IF x = v THEN obj ELSE store[x]]

StoreDel(store, vs) ==
    [x \in (DOMAIN store) \ vs |-> store[x]]

\* mutant: peer commands are tested with the predicate of own commands
all_true_speculative(store, versions, own) ==
    \A v \in versions : v \in DOMAIN store /\ store[v].potentially_live

all_true(store, versions, own) ==
    \A v \in versions :
        /\ v \in DOMAIN store
        /\ IF own THEN store[v].potentially_live ELSE store[v].actually_live

\* PaymentCommand.get_object + SharedObject.new_version: a fresh object has
\* both flags false, an update is a deep copy of its dependency (flags kept)
get_object(c, store) ==
    IF get_dependencies(c) = {}
    THEN [potentially_live |-> FALSE, actually_live |-> FALSE]
    ELSE store[CHOOSE d \in get_dependencies(c) : TRUE]

RECURSIVE InsertNew(_, _, _)
InsertNew(store, c, vs) ==
    IF vs = {} THEN store
    ELSE LET v == CHOOSE x \in vs : TRUE
             obj == [get_object(c, store) EXCEPT !.potentially_live = TRUE]
         IN  InsertNew(StorePut(store, v, obj), c, vs \ {v})

\* PaymentCommand.validity_checks returns True when it returns
validity_checks(c, store, own) == TRUE

\* result: the executor afterwards and whether ExecutorCannotSequence was
\* raised; valid is what command.validity_checks answered
sequence_next_command_valid(ex, c, do_not_sequence_errors, own, valid) ==
    LET all_good == all_true(ex.object_store, get_dependencies(c), own) /\ valid
        ex1 == [ex EXCEPT !.seq = Append(@, [command |-> c, commit_status |-> "None"])]
    IN  IF ~ all_good /\ do_not_sequence_errors
        THEN [ex |-> ex, raised |-> TRUE]
        ELSE IF ~ all_good
        THEN [ex |-> ex1, raised |-> TRUE]
        ELSE [ex |-> [ex1 EXCEPT !.object_store =
                          InsertNew(@, c, new_object_versions(c))],
              raised |-> FALSE]

sequence_next_command(ex, c, do_not_sequence_errors, own) ==
    sequence_next_command_valid(ex, c, do_not_sequence_errors, own,
                                validity_checks(c, ex.object_store, own))

RECURSIVE SetActuallyLive(_, _)
SetActuallyLive(store, vs) ==
    IF vs = {} THEN store
    ELSE LET v == CHOOSE x \in vs : TRUE
         IN  SetActuallyLive([store EXCEPT ![v].actually_live = TRUE], vs \ {v})

\* mutant: the dependencies of a successful command stay in the store
set_success_keep_dependencies(ex, seq_no) ==
    IF seq_no # ex.last_confirmed
    THEN [ex |-> ex, raised |-> ErrLastConfirmed]
    ELSE IF seq_no >= Len(ex.seq)
    THEN [ex |-> [ex EXCEPT !.last_confirmed = @ + 1], raised |-> ErrIndex]
    ELSE LET command == ex.seq[seq_no + 1].command
             ex1 == [ex EXCEPT !.last_confirmed = @ + 1,
                               !.seq[seq_no + 1].commit_status = "True"]
             new_versions == new_object_versions(command)
         IN  IF ~ (new_versions \subseteq DOMAIN ex1.object_store)
             THEN [ex |-> [ex1 EXCEPT !.object_store =
                               SetActuallyLive(@, new_versions \cap DOMAIN ex1.object_store)],
                   raised |-> ErrKey]
             ELSE [ex |-> [ex1 EXCEPT !.object_store =
                               SetActuallyLive(@, new_versions)],
                   raised |-> ""]

\* result: the executor afterwards and the exception raised, "" for none.
\* The assertion leaves the executor as it was; a KeyError leaves it as the
\* statements executed before the failing lookup made it.
set_success(ex, seq_no) ==
    IF seq_no # ex.last_confirmed
    THEN [ex |-> ex, raised |-> ErrLastConfirmed]
    ELSE IF seq_no >= Len(ex.seq)
    THEN [ex |-> [ex EXCEPT !.last_confirmed = @ + 1], raised |-> ErrIndex]
    ELSE LET command == ex.seq[seq_no + 1].command
             ex1 == [ex EXCEPT !.last_confirmed = @ + 1,
                               !.seq[seq_no + 1].commit_status = "True"]
             deps == get_dependencies(command)
             new_versions == new_object_versions(command)
         IN  IF ~ (deps \subseteq DOMAIN ex1.object_store)
             THEN [ex |-> [ex1 EXCEPT !.object_store =
                               StoreDel(@, deps \cap DOMAIN ex1.object_store)],
                   raised |-> ErrKey]
             ELSE LET ex2 == [ex1 EXCEPT !.object_store = StoreDel(@, deps)]
                  IN  IF ~ (new_versions \subseteq DOMAIN ex2.object_store)
                      THEN [ex |-> [ex2 EXCEPT !.object_store =
                                        SetActuallyLive(@, new_versions \cap DOMAIN ex2.object_store)],
                            raised |-> ErrKey]
                      ELSE [ex |-> [ex2 EXCEPT !.object_store =
                                        SetActuallyLive(@, new_versions)],
                            raised |-> ""]

set_fail(ex, seq_no) ==
    IF seq_no # ex.last_confirmed
    THEN [ex |-> ex, raised |-> ErrLastConfirmed]
    ELSE IF seq_no >= Len(ex.seq)
    THEN [ex |-> [ex EXCEPT !.last_confirmed = @ + 1], raised |-> ErrIndex]
    ELSE LET command == ex.seq[seq_no + 1].command
             ex1 == [ex EXCEPT !.last_confirmed = @ + 1,
                               !.seq[seq_no + 1].commit_status = "False"]
         IN  [ex |-> [ex1 EXCEPT !.object_store =
                          StoreDel(@, new_object_versions(command))],
              raised |-> ""]

(***************************************************************************)
(* The executor of src/src/offchainapi/executor.py.  Its store is a        *)
(* persistent dictionary: an object is read, changed and written back.     *)
(* own is derived from the command's origin; check_command of the          *)
(* processor either returns or raises, which the parameter valid decides.  *)
(***************************************************************************)
get_my_address == "A"

\* outcomes is the log of the calls of set_outcome, which hands the command
\* and is_success to processor.process_command; seq_no is recorded with them
InitOffchainExecutor ==
    [seq |-> << >>, last_confirmed |-> 0, object_store |-> << >>, outcomes |-> << >>]

\* lines 245-248 and 271-274: the command processor is called only for a
\* command whose commit_status is None
set_outcome(ex, seq_no, is_success) ==
    IF ex.seq[seq_no + 1].commit_status = "None"
    THEN [ex EXCEPT !.seq[seq_no + 1].commit_status = IF is_success THEN "True" ELSE "False",
                    !.outcomes = Append(@, [seq_no |-> seq_no, is_success |-> is_success])]
    ELSE ex

RECURSIVE ClearFlags(_, _)
ClearFlags(store, vs) ==
    IF vs = {} THEN store
    ELSE LET v == CHOOSE x \in vs : TRUE
         IN  ClearFlags([store EXCEPT ![v].actually_live = FALSE,
                                      ![v].potentially_live = FALSE], vs \ {v})

RECURSIVE SetBothLive(_, _)
SetBothLive(store, vs) ==
    IF vs = {} THEN store
    ELSE LET v == CHOOSE x \in vs : TRUE
         IN  SetBothLive([store EXCEPT ![v].actually_live = TRUE,
                                       ![v].potentially_live = TRUE], vs \ {v})

\* mutant: a command that fails its checks is never sequenced
offchainapi_sequence_next_command_no_audit(ex, c, do_not_sequence_errors, valid) ==
    LET own == (Origin[c] = get_my_address)
        all_good == all_true(ex.object_store, get_dependencies(c), own) /\ valid
        ex1 == [ex EXCEPT !.seq = Append(@, [command |-> c, commit_status |-> "None"])]
    IN  IF all_good
        THEN [ex |-> [ex1 EXCEPT !.object_store =
                          InsertNew(@, c, new_object_versions(c))],
              raised |-> FALSE]
        ELSE [ex |-> ex, raised |-> TRUE]

offchainapi_sequence_next_command(ex, c, do_not_sequence_errors, valid) ==
    LET own == (Origin[c] = get_my_address)
        all_good == all_true(ex.object_store, get_dependencies(c), own) /\ valid
        ex1 == [ex EXCEPT !.seq = Append(@, [command |-> c, commit_status |-> "None"])]
    IN  IF all_good
        THEN [ex |-> [ex1 EXCEPT !.object_store =
                          InsertNew(@, c, new_object_versions(c))],
              raised |-> FALSE]
        ELSE IF do_not_sequence_errors
        THEN [ex |-> ex, raised |-> TRUE]
        ELSE [ex |-> ex1, raised |-> TRUE]

RECURSIVE ClearPotentiallyLive(_, _)
ClearPotentiallyLive(store, vs) ==
    IF vs = {} THEN store
    ELSE LET v == CHOOSE x \in vs : TRUE
         IN  ClearPotentiallyLive([store EXCEPT ![v].potentially_live = FALSE], vs \ {v})

offchainapi_set_success_half_clear(ex, seq_no) ==
    IF seq_no # ex.last_confirmed
    THEN [ex |-> ex, raised |-> ErrLastConfirmed]
    ELSE IF seq_no >= Len(ex.seq)
    THEN [ex |-> [ex EXCEPT !.last_confirmed = @ + 1], raised |-> ErrIndex]
    ELSE LET command == ex.seq[seq_no + 1].command
             deps == get_dependencies(command)
             new_versions == new_object_versions(command)
             store == ex.object_store
         IN  IF ~ (deps \subseteq DOMAIN store)
             THEN [ex |-> [ex EXCEPT !.last_confirmed = @ + 1], raised |-> ErrKey]
             ELSE IF ~ (new_versions \subseteq DOMAIN store)
             THEN [ex |-> [ex EXCEPT !.last_confirmed = @ + 1], raised |-> ErrKey]
             ELSE [ex |-> [ex EXCEPT !.last_confirmed = @ + 1,
                                     !.seq[seq_no + 1].commit_status = "True",
                                     !.object_store =
                                         SetBothLive(ClearPotentiallyLive(store, deps), new_versions)],
                   raised |-> ""]

offchainapi_set_success_keep_flags(ex, seq_no) ==
    IF seq_no # ex.last_confirmed
    THEN [ex |-> ex, raised |-> ErrLastConfirmed]
    ELSE IF seq_no >= Len(ex.seq)
    THEN [ex |-> [ex EXCEPT !.last_confirmed = @ + 1], raised |-> ErrIndex]
    ELSE LET command == ex.seq[seq_no + 1].command
             deps == get_dependencies(command)
             new_versions == new_object_versions(command)
             store == ex.object_store
         IN  IF ~ (deps \subseteq DOMAIN store)
             THEN [ex |-> [ex EXCEPT !.last_confirmed = @ + 1], raised |-> ErrKey]
             ELSE IF ~ (new_versions \subseteq DOMAIN store)
             THEN [ex |-> [ex EXCEPT !.last_confirmed = @ + 1], raised |-> ErrKey]
             ELSE [ex |-> [ex EXCEPT !.last_confirmed = @ + 1,
                                     !.seq[seq_no + 1].commit_status = "True",
                                     !.object_store = SetBothLive(store, new_versions)],
                   raised |-> ""]

\* result: the executor afterwards and the exception raised, "" for none.
\* A KeyError leaves the executor as the statements before the failing
\* lookup made it: the dependencies found are cleared, commit_status is not
\* set (it is set last).
offchainapi_set_success(ex, seq_no) ==
    IF seq_no # ex.last_confirmed
    THEN [ex |-> ex, raised |-> ErrLastConfirmed]
    ELSE IF seq_no >= Len(ex.seq)
    THEN [ex |-> [ex EXCEPT !.last_confirmed = @ + 1], raised |-> ErrIndex]
    ELSE LET command == ex.seq[seq_no + 1].command
             deps == get_dependencies(command)
             new_versions == new_object_versions(command)
             store == ex.object_store
         IN  IF ~ (deps \subseteq DOMAIN store)
             THEN [ex |-> [ex EXCEPT !.last_confirmed = @ + 1,
                                     !.object_store = ClearFlags(@, deps \cap DOMAIN store)],
                   raised |-> ErrKey]
             ELSE IF ~ (new_versions \subseteq DOMAIN store)
             THEN [ex |-> [ex EXCEPT !.last_confirmed = @ + 1,
                                     !.object_store =
                                         SetBothLive(ClearFlags(@, deps), new_versions \cap DOMAIN store)],
                   raised |-> ErrKey]
             ELSE [ex |-> set_outcome([ex EXCEPT !.last_confirmed = @ + 1,
                                                 !.object_store =
                                                     SetBothLive(ClearFlags(store, deps), new_versions)],
                                      seq_no, TRUE),
                   raised |-> ""]

\* mutant: set_fail consumes the dependencies as set_success does
offchainapi_set_fail_consumes(ex, seq_no) ==
    IF seq_no # ex.last_confirmed
    THEN [ex |-> ex, raised |-> ErrLastConfirmed]
    ELSE IF seq_no >= Len(ex.seq)
    THEN [ex |-> [ex EXCEPT !.last_confirmed = @ + 1], raised |-> ErrIndex]
    ELSE LET command == ex.seq[seq_no + 1].command
             deps == get_dependencies(command) \cap DOMAIN ex.object_store
         IN  [ex |-> [ex EXCEPT !.last_confirmed = @ + 1,
                                !.seq[seq_no + 1].commit_status = "False",
                                !.object_store =
                                    StoreDel(ClearFlags(@, deps), new_object_versions(command))],
              raised |-> ""]

\* mutant: set_fail without its assertion
offchainapi_set_fail_unasserted(ex, seq_no) ==
    IF seq_no >= Len(ex.seq)
    THEN [ex |-> [ex EXCEPT !.last_confirmed = @ + 1], raised |-> ErrIndex]
    ELSE LET command == ex.seq[seq_no + 1].command
         IN  [ex |-> set_outcome([ex EXCEPT !.last_confirmed = @ + 1,
                                            !.object_store =
                                                StoreDel(@, new_object_versions(command))],
                                 seq_no, FALSE),
              raised |-> ""]

offchainapi_set_fail(ex, seq_no) ==
    IF seq_no # ex.last_confirmed
    THEN [ex |-> ex, raised |-> ErrLastConfirmed]
    ELSE IF seq_no >= Len(ex.seq)
    THEN [ex |-> [ex EXCEPT !.last_confirmed = @ + 1], raised |-> ErrIndex]
    ELSE LET command == ex.seq[seq_no + 1].command
         IN  [ex |-> set_outcome([ex EXCEPT !.last_confirmed = @ + 1,
                                            !.object_store =
                                                StoreDel(@, new_object_versions(command))],
                                 seq_no, FALSE),
              raised |-> ""]

(***************************************************************************)
(* Requests and responses (src/src/models.py).  None is modelled as -1     *)
(* for sequence numbers and as NoResponse for a missing response.          *)
(***************************************************************************)
NoneSeq == 0 - 1

NoResponse ==
    [seq |-> NoneSeq, command_seq |-> NoneSeq, status |-> "None",
     protocol_error |-> FALSE, code |-> "", previous_command |-> NoneSeq]

CommandRequestObject(command) ==
    [seq |-> NoneSeq, command_seq |-> NoneSeq, command |-> command,
     response |-> NoResponse]

is_same_command(request, other) == request.command = other.command

has_response(request) == request.response # NoResponse

is_success(request) == request.response.status = "success"

make_success_response(request) ==
    [seq |-> request.seq, command_seq |-> NoneSeq, status |-> "success",
     protocol_error |-> FALSE, code |-> "", previous_command |-> NoneSeq]

make_protocol_error(request, code) ==
    [seq |-> request.seq, command_seq |-> NoneSeq, status |-> "failure",
     protocol_error |-> TRUE, code |-> code, previous_command |-> NoneSeq]

make_command_error(request, code) ==
    [seq |-> request.seq, command_seq |-> NoneSeq, status |-> "failure",
     protocol_error |-> FALSE, code |-> code, previous_command |-> NoneSeq]

(***************************************************************************)
(* The channel (VASPPairChannel).  A handler is an operator from the       *)
(* channel state to a result: st the state it leaves, out the messages it  *)
(* sends in order, disk the state last written by persist(), err the       *)
(* exception that ended it ("" when it returned).                          *)
(***************************************************************************)
InitChannel ==
    [my_requests |-> << >>, my_next_seq |-> 0,
     other_requests |-> << >>, other_next_seq |-> 0,
     pending_requests |-> << >>,
     executor |-> InitExecutor]

Result(st, out, disk, err) == [st |-> st, out |-> out, disk |-> disk, err |-> err]

next_final_sequence(st) == next_seq(st.executor)

pending_responses(st) ==
    Cardinality({i \in DOMAIN st.my_requests : ~ has_response(st.my_requests[i])})

\* mutant: the request's own seq is taken for the position in the sequence
apply_response_by_request_seq(ex, request) ==
    IF is_success(request)
    THEN set_success(ex, request.seq)
    ELSE set_fail(ex, request.seq)

apply_response_to_executor(ex, request) ==
    IF is_success(request)
    THEN set_success(ex, request.response.command_seq)
    ELSE set_fail(ex, request.response.command_seq)

\* persist() at the end of a handler: the state written is the state left
Persisted(st, out) == Result(st, out, st, "")

SendLocal(st, request) ==
    Persisted([st EXCEPT !.my_next_seq = @ + 1,
                         !.my_requests = Append(@, request)],
              <<request>>)

ServerSequenceLocal(st, disk, request, r) ==
    IF r.raised
    THEN Result(st, << >>, disk, ErrCannotSequence)
    ELSE SendLocal([st EXCEPT !.executor = r.ex], request)

\* mutant: the server stamps its request with last_confirmed
sequence_command_local_last_confirmed(e, st, disk, off_chain_command) ==
    IF IsServer(e)
    THEN ServerSequenceLocal(st, disk,
             [CommandRequestObject(off_chain_command)
                 EXCEPT !.seq = st.my_next_seq,
                        !.command_seq = st.executor.last_confirmed],
             sequence_next_command(st.executor, off_chain_command, TRUE, TRUE))
    ELSE SendLocal(st, [CommandRequestObject(off_chain_command)
                           EXCEPT !.seq = st.my_next_seq])

sequence_command_local(e, st, disk, off_chain_command) ==
    IF IsServer(e)
    THEN ServerSequenceLocal(st, disk,
             [CommandRequestObject(off_chain_command)
                 EXCEPT !.seq = st.my_next_seq,
                        !.command_seq = next_final_sequence(st)],
             sequence_next_command(st.executor, off_chain_command, TRUE, TRUE))
    ELSE SendLocal(st, [CommandRequestObject(off_chain_command)
                           EXCEPT !.seq = st.my_next_seq])

\* handle_request, lines 206-211: the response is applied, persisted, sent
RequestApplied(st, disk, request, a) ==
    IF a.raised # ""
    THEN Result([st EXCEPT !.executor = a.ex], << >>, disk, a.raised)
    ELSE Persisted([st EXCEPT !.executor = a.ex], <<request.response>>)

\* mutant: the response is stored and sent, not applied to the executor
RequestResponded_not_applied(st, disk, request, ex) ==
    Persisted([st EXCEPT !.other_requests[Len(st.other_requests)] = request,
                         !.executor = ex],
              <<request.response>>)

RequestResponded(st, disk, request, ex) ==
    RequestApplied([st EXCEPT !.other_requests[Len(st.other_requests)] = request,
                              !.executor = ex],
                   disk, request, apply_response_to_executor(ex, request))

\* handle_request, lines 198-207: sequence the command, build the response
RequestSequenced(st, disk, request, seq, r) ==
    RequestResponded(st, disk,
        [request EXCEPT !.response =
            [(IF r.raised
              THEN make_command_error(request, ErrCannotSequence)
              ELSE make_success_response(request))
             EXCEPT !.command_seq = seq]],
        r.ex)

\* handle_request, lines 185-198: st is the state after other_next_seq and
\* other_requests were updated
RequestInOrder(st, disk, request) ==
    IF request.command_seq # NoneSeq /\ request.command_seq # next_final_sequence(st)
    THEN Result(st, << >>, disk, ErrCommandSeq)
    ELSE RequestSequenced(st, disk, request, next_final_sequence(st),
             sequence_next_command(st.executor, request.command, FALSE, FALSE))

\* mutant: a conflicting request replaces the stored one
RequestOld_overwrite(st, disk, request, previous_request) ==
    IF is_same_command(previous_request, request)
    THEN Result(st, <<previous_request.response>>, disk, "")
    ELSE Result([st EXCEPT !.other_requests[request.seq + 1] = request],
                <<[make_protocol_error(request, "conflict")
                      EXCEPT !.previous_command = previous_request.command]>>,
                disk, "")

RequestOld(st, disk, request, previous_request) ==
    IF is_same_command(previous_request, request)
    THEN Result(st, <<previous_request.response>>, disk, "")
    ELSE Result(st,
                <<[make_protocol_error(request, "conflict")
                      EXCEPT !.previous_command = previous_request.command]>>,
                disk, "")

\* mutant: the server defers before it looks for an old request
handle_request_defer_first(e, st, disk, request) ==
    IF IsServer(e) /\ pending_responses(st) > 0
    THEN Result([st EXCEPT !.pending_requests = Append(@, request)], << >>, disk, "")
    ELSE IF request.seq < st.other_next_seq
    THEN RequestOld(st, disk, request, st.other_requests[request.seq + 1])
    ELSE IF IsServer(e) /\ request.command_seq # NoneSeq
    THEN Result(st, <<make_protocol_error(request, "malformed")>>, disk, "")
    ELSE IF request.seq = st.other_next_seq
    THEN IF IsClient(e) /\ request.command_seq > next_final_sequence(st)
         THEN Result(st, <<make_protocol_error(request, "wait")>>, disk, "")
         ELSE RequestInOrder([st EXCEPT !.other_next_seq = @ + 1,
                                        !.other_requests = Append(@, request)],
                             disk, request)
    ELSE Result(st, <<make_protocol_error(request, "missing")>>, disk, "")

\* mutant: the server does not defer
handle_request_no_defer(e, st, disk, request) ==
    IF request.seq < st.other_next_seq
    THEN RequestOld(st, disk, request, st.other_requests[request.seq + 1])
    ELSE IF IsServer(e) /\ request.command_seq # NoneSeq
    THEN Result(st, <<make_protocol_error(request, "malformed")>>, disk, "")
    ELSE IF request.seq = st.other_next_seq
    THEN IF IsClient(e) /\ request.command_seq > next_final_sequence(st)
         THEN Result(st, <<make_protocol_error(request, "wait")>>, disk, "")
         ELSE RequestInOrder([st EXCEPT !.other_next_seq = @ + 1,
                                        !.other_requests = Append(@, request)],
                             disk, request)
    ELSE Result(st, <<make_protocol_error(request, "missing")>>, disk, "")

\* mutant: a request from the future is sequenced at once
RequestFuture_sequenced(st, disk, request) ==
    RequestInOrder([st EXCEPT !.other_next_seq = @ + 1,
                              !.other_requests = Append(@, request)],
                   disk, request)

\* handle_request, lines 213-217: a request from the future
RequestFuture(st, disk, request) ==
    Result(st, <<make_protocol_error(request, "missing")>>, disk, "")

\* mutant: the client sequences a request for a later slot at once
RequestWait_sequenced(st, disk, request) ==
    RequestSequenced([st EXCEPT !.other_next_seq = @ + 1,
                                !.other_requests = Append(@, request)],
                     disk, request, next_final_sequence(st),
                     sequence_next_command(st.executor, request.command, FALSE, FALSE))

\* handle_request, lines 178-183: the client cannot answer yet
RequestWait(st, disk, request) ==
    Result(st, <<make_protocol_error(request, "wait")>>, disk, "")

\* mutant: the server takes the sequence number the client suggests
RequestMalformed_accepted(st, disk, request) ==
    IF request.seq = st.other_next_seq
    THEN RequestSequenced([st EXCEPT !.other_next_seq = @ + 1,
                                    !.other_requests = Append(@, request)],
                          disk, request, request.command_seq,
                          sequence_next_command(st.executor, request.command, FALSE, FALSE))
    ELSE Result(st, <<make_protocol_error(request, "missing")>>, disk, "")

\* handle_request, lines 164-167: a client suggested a sequence number
RequestMalformed(st, disk, request) ==
    Result(st, <<make_protocol_error(request, "malformed")>>, disk, "")

handle_request(e, st, disk, request) ==
    IF request.seq < st.other_next_seq
    THEN RequestOld(st, disk, request, st.other_requests[request.seq + 1])
    ELSE IF IsServer(e) /\ request.command_seq # NoneSeq
    THEN RequestMalformed(st, disk, request)
    ELSE IF IsServer(e) /\ pending_responses(st) > 0
    THEN Result([st EXCEPT !.pending_requests = Append(@, request)], << >>, disk, "")
    ELSE IF request.seq = st.other_next_seq
    THEN IF IsClient(e) /\ request.command_seq = NoneSeq
         THEN Result(st, << >>, disk, ErrNoneSeq)
         ELSE IF IsClient(e) /\ request.command_seq > next_final_sequence(st)
         THEN RequestWait(st, disk, request)
         ELSE RequestInOrder([st EXCEPT !.other_next_seq = @ + 1,
                                        !.other_requests = Append(@, request)],
                             disk, request)
    ELSE RequestFuture(st, disk, request)

RECURSIVE HandleAll(_, _, _, _)
HandleAll(e, requests, out, r) ==
    IF requests = << >> \/ r.err # ""
    THEN Result(r.st, out \o r.out, r.disk, r.err)
    ELSE HandleAll(e, Tail(requests), out \o r.out,
                   handle_request(e, r.st, r.disk, Head(requests)))

\* mutant: the deferred requests are handled latest first
process_pending_requests_latest_first(e, st, disk) ==
    IF pending_responses(st) = 0
    THEN HandleAll(e, [i \in DOMAIN st.pending_requests |->
                          st.pending_requests[Len(st.pending_requests) + 1 - i]],
                   << >>,
                   Result([st EXCEPT !.pending_requests = << >>], << >>, disk, ""))
    ELSE Result(st, << >>, disk, "")

process_pending_requests(e, st, disk) ==
    IF pending_responses(st) = 0
    THEN HandleAll(e, st.pending_requests, << >>,
                   Result([st EXCEPT !.pending_requests = << >>], << >>, disk, ""))
    ELSE Result(st, << >>, disk, "")

\* handle_response, line 262: persist() after the pending requests
PersistAfter(p) ==
    IF p.err # "" THEN p ELSE Persisted(p.st, p.out)

\* handle_response, lines 260-262 (persist) and lines 268-269 (no persist)
ResponseApplied(e, st, disk, a, persist) ==
    IF a.raised # ""
    THEN Result([st EXCEPT !.executor = a.ex], << >>, disk, a.raised)
    ELSE IF persist
    THEN PersistAfter(process_pending_requests(e, [st EXCEPT !.executor = a.ex], disk))
    ELSE process_pending_requests(e, [st EXCEPT !.executor = a.ex], disk)

\* mutant: the server keeps the outcome of its own sequencing (success)
\* for a command it has already sequenced
ResponseNew_own_outcome(e, st, disk, response, request) ==
    IF response.command_seq = next_final_sequence(st)
    THEN ResponseApplied(e,
             [st EXCEPT !.my_requests[response.seq + 1] = request], disk,
             apply_response_to_executor(
                 sequence_next_command(st.executor, request.command, FALSE, TRUE).ex,
                 request),
             TRUE)
    ELSE IF response.command_seq < next_final_sequence(st)
    THEN ResponseApplied(e,
             [st EXCEPT !.my_requests[response.seq + 1] = request], disk,
             set_success(st.executor, response.command_seq),
             FALSE)
    ELSE Result(st, << >>, disk, "")

\* mutant: the client applies the response without sequencing its command
ResponseNew_not_sequenced(e, st, disk, response, request) ==
    IF response.command_seq <= next_final_sequence(st)
    THEN ResponseApplied(e,
             [st EXCEPT !.my_requests[response.seq + 1] = request], disk,
             apply_response_to_executor(st.executor, request),
             response.command_seq = next_final_sequence(st))
    ELSE Result(st, << >>, disk, "")

\* handle_response, lines 246-275: st is the state before, request the
\* request of my_requests with its response set
ResponseNew(e, st, disk, response, request) ==
    IF response.command_seq = next_final_sequence(st)
    THEN ResponseApplied(e,
             [st EXCEPT !.my_requests[response.seq + 1] = request], disk,
             apply_response_to_executor(
                 sequence_next_command(st.executor, request.command, FALSE, TRUE).ex,
                 request),
             TRUE)
    ELSE IF response.command_seq < next_final_sequence(st)
    THEN ResponseApplied(e,
             [st EXCEPT !.my_requests[response.seq + 1] = request], disk,
             apply_response_to_executor(st.executor, request),
             FALSE)
    ELSE Result(st, << >>, disk, "")

\* mutant: the request is looked up at request_seq - 1 (Python: the last
\* request for request_seq = 0)
handle_response_wrong_request(e, st, disk, response) ==
    IF ~ (response.seq < Len(st.my_requests))
    THEN Result(st, << >>, disk, "")
    ELSE IF response.seq > 0 /\ ~ has_response(st.my_requests[response.seq])
    THEN Result(st, << >>, disk, "")
    ELSE IF response.status = "success"
            \/ (response.status = "failure" /\ ~ response.protocol_error)
    THEN IF has_response(st.my_requests[response.seq + 1])
         THEN Result(st, << >>, disk, "")
         ELSE ResponseNew(e, st, disk, response,
                  [st.my_requests[IF response.seq = 0 THEN Len(st.my_requests)
                                  ELSE response.seq]
                      EXCEPT !.response = response, !.seq = response.seq])
    ELSE Result(st, << >>, disk, "")

\* mutant: a response is applied although the request already has one
handle_response_not_idempotent(e, st, disk, response) ==
    IF ~ (response.seq < Len(st.my_requests))
    THEN Result(st, << >>, disk, "")
    ELSE IF response.seq > 0 /\ ~ has_response(st.my_requests[response.seq])
    THEN Result(st, << >>, disk, "")
    ELSE IF response.status = "success"
            \/ (response.status = "failure" /\ ~ response.protocol_error)
    THEN ResponseNew(e, st, disk, response,
             [st.my_requests[response.seq + 1] EXCEPT !.response = response])
    ELSE Result(st, << >>, disk, "")

\* mutant: the response is taken whether or not the preceding request has one
handle_response_any_order(e, st, disk, response) ==
    IF ~ (response.seq < Len(st.my_requests))
    THEN Result(st, << >>, disk, "")
    ELSE IF response.status = "success"
            \/ (response.status = "failure" /\ ~ response.protocol_error)
    THEN IF has_response(st.my_requests[response.seq + 1])
         THEN Result(st, << >>, disk, "")
         ELSE ResponseNew(e, st, disk, response,
                  [st.my_requests[response.seq + 1] EXCEPT !.response = response])
    ELSE Result(st, << >>, disk, "")

handle_response(e, st, disk, response) ==
    IF ~ (response.seq < Len(st.my_requests))
    THEN Result(st, << >>, disk, "")
    ELSE IF response.seq > 0 /\ ~ has_response(st.my_requests[response.seq])
    THEN Result(st, << >>, disk, "")
    ELSE IF response.status = "success"
            \/ (response.status = "failure" /\ ~ response.protocol_error)
    THEN IF has_response(st.my_requests[response.seq + 1])
         THEN Result(st, << >>, disk, "")
         ELSE ResponseNew(e, st, disk, response,
                  [st.my_requests[response.seq + 1] EXCEPT !.response = response])
    ELSE IF response.code \in {"missing", "wait", "malformed"}
    THEN Result(st, << >>, disk, "")
    ELSE Result(st, << >>, disk, ErrProtocol)

would_retransmit(st) ==
    \E i \in DOMAIN st.my_requests : ~ has_response(st.my_requests[i])

retransmit_latest(st) ==
    IF would_retransmit(st)
    THEN LET i == CHOOSE j \in DOMAIN st.my_requests :
                      /\ ~ has_response(st.my_requests[j])
                      /\ \A k \in DOMAIN st.my_requests :
                            ~ has_response(st.my_requests[k]) => k <= j
         IN  <<st.my_requests[i]>>
    ELSE << >>

\* mutant: every request without a response is sent again
retransmit_all(st) ==
    SelectSeq(st.my_requests, LAMBDA r : ~ has_response(r))

\* the messages retransmit() sends: the earliest request without a response
retransmit(st) ==
    IF would_retransmit(st)
    THEN LET i == CHOOSE j \in DOMAIN st.my_requests :
                      /\ ~ has_response(st.my_requests[j])
                      /\ \A k \in DOMAIN st.my_requests :
                             ~ has_response(st.my_requests[k]) => j <= k
         IN  <<st.my_requests[i]>>
    ELSE << >>

(***************************************************************************)
(* The system: the two endpoints, the network between them, the state each *)
(* endpoint last persisted.                                                *)
(*   chan     the channel object of each endpoint                          *)
(*   disk     the channel state written by the endpoint's last persist()   *)
(*   net      the messages sent; each is delivered any number of times,    *)
(*            in any order (duplication, reordering), or never (loss)      *)
(*   crashes  number of crash-and-reload events of each endpoint           *)
(*   failed   the assertion failures and lookup errors raised so far in    *)
(*            the handlers of each endpoint                                *)
(*   ev       the last operation: its name, its endpoint, the command,     *)
(*            request or response it was given, the messages it sent and   *)
(*            the exception that ended it                                  *)
(***************************************************************************)
VARIABLES chan, disk, net, crashes, failed, ev

chanVars == <<chan, disk, net, crashes, failed, ev>>

(***************************************************************************)
(* State of the other specifications of this module (declared here so that *)
(* every specification fixes every variable):                              *)
(*   exe      SpecExec: the two executors driven by the same calls         *)
(*   pay      SpecPay: a payment and the last operation on it;             *)
(*            SpecProc: the payment processor and its last step            *)
(*   role     SpecRole: a pair of parent addresses and the roles computed  *)
(***************************************************************************)
VARIABLES exe, pay, role

\* the messages the network has lost, when losses are counted
VARIABLE lost

\* the operation of the last step, the endpoint that performed it, and the
\* count of steps modulo 2
VARIABLE last

vars == <<chan, disk, net, crashes, failed, ev, exe, pay, role, lost, last>>

Idle == "idle"

\* steps are counted modulo 2 where fairness needs to tell a step from
\* stuttering; elsewhere the count stays Uncounted
Uncounted == 0 - 1

LastStep(op, e) == <<op, e, IF last[3] = Uncounted THEN Uncounted ELSE 1 - last[3]>>

Msg(kind, to, body) == [kind |-> kind, to |-> to, body |-> body]

Range(s) == {s[i] : i \in DOMAIN s}

Sent(kind, to, out) == {Msg(kind, to, b) : b \in Range(out)}

Event(op, e, arg, out, err) ==
    [op |-> op, e |-> e, arg |-> arg, out |-> out, err |-> err]

Unexpected(err) == IF err \in {"", ErrCannotSequence} THEN {} ELSE {err}

InitChannels ==
    /\ chan = [e \in Endpoints |-> InitChannel]
    /\ disk = [e \in Endpoints |-> InitChannel]
    /\ net = {}
    /\ crashes = [e \in Endpoints |-> 0]
    /\ failed = [e \in Endpoints |-> {}]
    /\ ev = Event("init", "A", NoneSeq, << >>, "")

InitChan ==
    /\ InitChannels
    /\ last = <<"init", "A", Uncounted>>

Init ==
    /\ InitChan
    /\ exe = Idle /\ pay = Idle /\ role = Idle /\ lost = 0

Proposed(e) == {chan[e].my_requests[i].command : i \in DOMAIN chan[e].my_requests}

\* the local VASP proposes one of its commands
SequenceLocal(e, c) ==
    /\ Origin[c] = e
    /\ c \notin Proposed(e)
    /\ Len(chan["A"].my_requests) + Len(chan["B"].my_requests) < MaxProposals
    /\ LET r == sequence_command_local(e, chan[e], disk[e], c)
       IN  /\ chan' = [chan EXCEPT ![e] = r.st]
           /\ disk' = [disk EXCEPT ![e] = r.disk]
           /\ net' = net \cup Sent("request", Other(e), r.out)
           /\ failed' = [failed EXCEPT ![e] = @ \cup Unexpected(r.err)]
           /\ ev' = Event("sequence_command_local", e, c, r.out, r.err)
           /\ last' = LastStep("sequence_command_local", e)
    /\ UNCHANGED <<crashes, exe, pay, role, lost>>

\* a request in flight reaches its destination
DeliverRequest(e, m) ==
    /\ m \in net /\ m.kind = "request" /\ m.to = e
    /\ Len(chan[e].pending_requests) < MaxPending
    /\ LET r == handle_request(e, chan[e], disk[e], m.body)
       IN  /\ chan' = [chan EXCEPT ![e] = r.st]
           /\ disk' = [disk EXCEPT ![e] = r.disk]
           /\ net' = net \cup Sent("response", Other(e), r.out)
           /\ failed' = [failed EXCEPT ![e] = @ \cup Unexpected(r.err)]
           /\ ev' = Event("handle_request", e, m.body, r.out, r.err)
           /\ last' = LastStep("handle_request", e)
    /\ UNCHANGED <<crashes, exe, pay, role, lost>>

\* a response in flight reaches its destination
DeliverResponse(e, m) ==
    /\ m \in net /\ m.kind = "response" /\ m.to = e
    /\ LET r == handle_response(e, chan[e], disk[e], m.body)
       IN  /\ chan' = [chan EXCEPT ![e] = r.st]
           /\ disk' = [disk EXCEPT ![e] = r.disk]
           /\ net' = net \cup Sent("response", Other(e), r.out)
           /\ failed' = [failed EXCEPT ![e] = @ \cup Unexpected(r.err)]
           /\ ev' = Event("handle_response", e, m.body, r.out, r.err)
           /\ last' = LastStep("handle_response", e)
    /\ UNCHANGED <<crashes, exe, pay, role, lost>>

\* the endpoint calls retransmit(), whether or not a request lacks a
\* response
CallRetransmit(e) ==
    /\ net' = net \cup Sent("request", Other(e), retransmit(chan[e]))
    /\ ev' = Event("retransmit", e, NoneSeq, retransmit(chan[e]), "")
    /\ last' = LastStep("retransmit", e)
    /\ UNCHANGED <<chan, disk, crashes, failed, exe, pay, role, lost>>

\* the watchdog of the endpoint calls retransmit() while would_retransmit()
Retransmit(e) ==
    /\ would_retransmit(chan[e])
    /\ CallRetransmit(e)

\* the endpoint crashes and reloads the state of its last persist()
Crash(e) ==
    /\ crashes[e] < MaxCrash
    /\ chan' = [chan EXCEPT ![e] = disk[e]]
    /\ crashes' = [crashes EXCEPT ![e] = @ + 1]
    /\ ev' = Event("crash", e, NoneSeq, << >>, "")
    /\ last' = LastStep("crash", e)
    /\ UNCHANGED <<disk, net, failed, exe, pay, role, lost>>

Next ==
    \/ \E e \in Endpoints, c \in Commands : SequenceLocal(e, c)
    \/ \E e \in Endpoints, m \in net : DeliverRequest(e, m)
    \/ \E e \in Endpoints, m \in net : DeliverResponse(e, m)
    \/ \E e \in Endpoints : CallRetransmit(e)
    \/ \E e \in Endpoints : Crash(e)

Spec == Init /\ [][Next]_vars

(***************************************************************************)
(* The channel with a network that delivers: a message in flight is        *)
(* handled once by its destination, the network loses at most MaxLoss      *)
(* messages, no endpoint crashes, every message in flight is eventually    *)
(* received and each endpoint keeps calling retransmit() while             *)
(* would_retransmit() is true.                                             *)
(***************************************************************************)
\* a request in flight is received and handled
ReceiveRequest(e, m) ==
    /\ m \in net /\ m.kind = "request" /\ m.to = e
    /\ Len(chan[e].pending_requests) < MaxPending
    /\ LET r == handle_request(e, chan[e], disk[e], m.body)
       IN  /\ chan' = [chan EXCEPT ![e] = r.st]
           /\ disk' = [disk EXCEPT ![e] = r.disk]
           /\ net' = (net \ {m}) \cup Sent("response", Other(e), r.out)
           /\ failed' = [failed EXCEPT ![e] = @ \cup Unexpected(r.err)]
           /\ ev' = Event("handle_request", e, m.body, r.out, r.err)
           /\ last' = LastStep("handle_request", e)
    /\ UNCHANGED <<crashes, exe, pay, role, lost>>

\* a response in flight is received and handled
ReceiveResponse(e, m) ==
    /\ m \in net /\ m.kind = "response" /\ m.to = e
    /\ LET r == handle_response(e, chan[e], disk[e], m.body)
       IN  /\ chan' = [chan EXCEPT ![e] = r.st]
           /\ disk' = [disk EXCEPT ![e] = r.disk]
           /\ net' = (net \ {m}) \cup Sent("response", Other(e), r.out)
           /\ failed' = [failed EXCEPT ![e] = @ \cup Unexpected(r.err)]
           /\ ev' = Event("handle_response", e, m.body, r.out, r.err)
           /\ last' = LastStep("handle_response", e)
    /\ UNCHANGED <<crashes, exe, pay, role, lost>>

\* the network loses a message, while it may
LoseInFlight(m) ==
    /\ m \in net
    /\ lost < MaxLoss
    /\ net' = net \ {m}
    /\ lost' = lost + 1
    /\ ev' = Event("lose", m.to, NoneSeq, << >>, "")
    /\ last' = LastStep("lose", m.to)
    /\ UNCHANGED <<chan, disk, crashes, failed, exe, pay, role>>

NextLive ==
    \/ \E e \in Endpoints, c \in Commands : SequenceLocal(e, c)
    \/ \E e \in Endpoints, m \in net : ReceiveRequest(e, m)
    \/ \E e \in Endpoints, m \in net : ReceiveResponse(e, m)
    \/ \E e \in Endpoints : Retransmit(e)
    \/ \E m \in net : LoseInFlight(m)

\* a request for e is in flight and e can take it
RequestInFlight(e) ==
    /\ \E m \in net : m.kind = "request" /\ m.to = e
    /\ Len(chan[e].pending_requests) < MaxPending

\* a response for e is in flight
ResponseInFlight(e) == \E m \in net : m.kind = "response" /\ m.to = e

\* the steps in which e handles a request in flight: those of
\* ReceiveRequest(e, m), which always change net
HandlesRequest(e) == RequestInFlight(e) /\ last' = LastStep("handle_request", e)

\* the steps in which e handles a response in flight: those of
\* ReceiveResponse(e, m)
HandlesResponse(e) == ResponseInFlight(e) /\ last' = LastStep("handle_response", e)

\* an endpoint that has messages in flight to it eventually handles one,
\* and an endpoint that would retransmit eventually does
Fairness ==
    \A e \in Endpoints :
        /\ WF_vars(Retransmit(e))
        /\ WF_last(HandlesRequest(e))
        /\ WF_last(HandlesResponse(e))

InitLive ==
    /\ InitChannels
    /\ last = <<"init", "A", 0>>
    /\ exe = Idle /\ pay = Idle /\ role = Idle /\ lost = 0

SpecLive == InitLive /\ [][NextLive]_vars /\ Fairness

(***************************************************************************)
(* One endpoint with an arbitrary peer: the endpoint proposes commands of   *)
(* its own with sequence_command_local and is handed any request and any   *)
(* response of the message format, in any order and any number of times,   *)
(* whether or not a correct peer could have sent it: a request carries a   *)
(* command of the peer, any seq and any command_seq or none.  The endpoint *)
(* is the one named in last, the same for the whole behaviour; it defers   *)
(* one request at a time.  What a handler raised is in ev; failed is not   *)
(* kept here.                                                              *)
(***************************************************************************)
AnyRequests(e) ==
    {[CommandRequestObject(c) EXCEPT !.seq = n, !.command_seq = k] :
        c \in {x \in Commands : Origin[x] = Other(e)},
        n \in 0 .. MaxSeq, k \in {NoneSeq} \cup (0 .. MaxSeq)}

AnyResponses ==
    {[make_success_response([seq |-> n]) EXCEPT !.command_seq = k] :
        n \in 0 .. MaxSeq, k \in 0 .. MaxSeq}
    \cup {[make_command_error([seq |-> n], ErrCannotSequence) EXCEPT !.command_seq = k] :
        n \in 0 .. MaxSeq, k \in 0 .. MaxSeq}
    \cup {make_protocol_error([seq |-> n], code) :
        n \in 0 .. MaxSeq, code \in {"missing", "wait", "malformed", "conflict"}}

\* the peer's message is a request
AnyRequest(e, request) ==
    /\ chan[e].pending_requests = << >>
    /\ LET r == handle_request(e, chan[e], disk[e], request)
       IN  /\ chan' = [chan EXCEPT ![e] = r.st]
           /\ disk' = [disk EXCEPT ![e] = r.disk]
           /\ ev' = Event("handle_request", e, request, r.out, r.err)
           /\ last' = LastStep("handle_request", e)
    /\ UNCHANGED <<net, crashes, failed, exe, pay, role, lost>>

\* the peer's message is a response
AnyResponse(e, response) ==
    /\ LET r == handle_response(e, chan[e], disk[e], response)
       IN  /\ chan' = [chan EXCEPT ![e] = r.st]
           /\ disk' = [disk EXCEPT ![e] = r.disk]
           /\ ev' = Event("handle_response", e, response, r.out, r.err)
           /\ last' = LastStep("handle_response", e)
    /\ UNCHANGED <<net, crashes, failed, exe, pay, role, lost>>

NextChannel ==
    \E e \in {last[2]} :
        \/ \E c \in Commands : SequenceLocal(e, c)
        \/ \E request \in AnyRequests(e) : AnyRequest(e, request)
        \/ \E response \in AnyResponses : AnyResponse(e, response)

InitChannelAlone ==
    /\ InitChannels
    /\ \E e \in Endpoints : last = <<"init", e, Uncounted>>
    /\ exe = Idle /\ pay = Idle /\ role = Idle /\ lost = 0

SpecChannel == InitChannelAlone /\ [][NextChannel]_vars

(***************************************************************************)
(* The executors driven alone: any sequence of sequence_next_command,      *)
(* set_success and set_fail calls, with any arguments, is made on the      *)
(* executor of src/src/executor.py (old) and on the executor of            *)
(* src/src/offchainapi/executor.py (new) at the same time.  exe records    *)
(* both executors, the last call and what it raised.                      *)
(***************************************************************************)
\* the arguments of the last call besides the command and seq_no, and, for
\* sequence_command_local, the counter and the requests of the channel
\* afterwards and the messages it sent; removed is, for set_fail, the
\* versions that were in both stores before the call and are in neither after
Call(do_not_sequence_errors, valid, st, sent) ==
    [do_not_sequence_errors |-> do_not_sequence_errors, valid |-> valid,
     my_next_seq |-> st.my_next_seq, my_requests |-> st.my_requests, sent |-> sent,
     removed |-> {}]

NoCall == Call(FALSE, TRUE, InitChannel, << >>)

ExecState(old, new, op, c, seq_no, raised_old, raised_new, calls, call) ==
    [old |-> old, new |-> new, op |-> op, command |-> c, seq_no |-> seq_no,
     raised_old |-> raised_old, raised_new |-> raised_new, calls |-> calls,
     call |-> call]

InitExec ==
    /\ InitChan
    /\ exe = ExecState(InitExecutor, InitOffchainExecutor, "init", 0, 0, "", "", 0, NoCall)
    /\ pay = Idle
    /\ role = Idle
    /\ lost = 0

Raised(b) == IF b THEN ErrCannotSequence ELSE ""

ExecSequenceNext(c, do_not_sequence_errors, valid) ==
    /\ exe.calls < MaxCalls
    /\ LET o == sequence_next_command_valid(exe.old, c, do_not_sequence_errors,
                                            Origin[c] = get_my_address, valid)
           n == offchainapi_sequence_next_command(exe.new, c, do_not_sequence_errors, valid)
       IN  exe' = ExecState(o.ex, n.ex, "sequence_next_command", c, 0,
                            Raised(o.raised), Raised(n.raised), exe.calls + 1,
                            Call(do_not_sequence_errors, valid, InitChannel, << >>))
    /\ UNCHANGED <<chan, disk, net, crashes, failed, ev, pay, role, lost, last>>

\* a channel whose is_server() is true proposes a command of its VASP: a
\* channel that has made no request yet, over the executor old; the
\* executor new is given the same call of sequence_next_command (strict,
\* the processor's check passes)
ExecSequenceLocal(c) ==
    /\ exe.calls < MaxCalls
    /\ Origin[c] = get_my_address
    /\ \E e \in {x \in Endpoints : IsServer(x)} :
          LET o == sequence_command_local(e, [InitChannel EXCEPT !.executor = exe.old],
                                          InitChannel, c)
              n == offchainapi_sequence_next_command(exe.new, c, TRUE, TRUE)
          IN  exe' = ExecState(o.st.executor, n.ex, "sequence_command_local", c, 0,
                               o.err, Raised(n.raised), exe.calls + 1,
                               Call(TRUE, TRUE, o.st, o.out))
    /\ UNCHANGED <<chan, disk, net, crashes, failed, ev, pay, role, lost, last>>

ExecSetSuccess(seq_no) ==
    /\ exe.calls < MaxCalls
    /\ LET o == set_success(exe.old, seq_no)
           n == offchainapi_set_success(exe.new, seq_no)
       IN  exe' = ExecState(o.ex, n.ex, "set_success", 0, seq_no,
                            o.raised, n.raised, exe.calls + 1, NoCall)
    /\ UNCHANGED <<chan, disk, net, crashes, failed, ev, pay, role, lost, last>>

ExecSetFail(seq_no) ==
    /\ exe.calls < MaxCalls
    /\ LET o == set_fail(exe.old, seq_no)
           n == offchainapi_set_fail(exe.new, seq_no)
           removed == ((DOMAIN exe.old.object_store) \cap (DOMAIN exe.new.object_store))
                          \ ((DOMAIN o.ex.object_store) \cup (DOMAIN n.ex.object_store))
       IN  exe' = ExecState(o.ex, n.ex, "set_fail", 0, seq_no,
                            o.raised, n.raised, exe.calls + 1,
                            [NoCall EXCEPT !.removed = removed])
    /\ UNCHANGED <<chan, disk, net, crashes, failed, ev, pay, role, lost, last>>

NextExec ==
    \/ \E c \in Commands, s \in BOOLEAN, v \in BOOLEAN : ExecSequenceNext(c, s, v)
    \/ \E c \in Commands : ExecSequenceLocal(c)
    \/ \E n \in 0 .. MaxCalls : ExecSetSuccess(n)
    \/ \E n \in 0 .. MaxCalls : ExecSetFail(n)

SpecExec == InitExec /\ [][NextExec]_vars

(***************************************************************************)
(* Role assignment alone: two channels, one at each VASP of a pair of      *)
(* parent addresses, evaluate is_client and is_server, any number of       *)
(* times.  role records the addresses and what each evaluation returned.   *)
(***************************************************************************)
Addresses == 0 .. MaxAddress

InitRole ==
    /\ InitChan
    /\ exe = Idle
    /\ pay = Idle
    /\ lost = 0
    /\ \E a \in Addresses, b \in Addresses :
          role = [address |-> [A |-> a, B |-> b],
                  evaluated |-> [A |-> << >>, B |-> << >>]]

EvaluateRole(e) ==
    /\ Len(role.evaluated[e]) < MaxEvaluations
    /\ role' = [role EXCEPT !.evaluated[e] = Append(@,
                   [is_client |-> is_client(role.address[e], role.address[Other(e)]),
                    is_server |-> is_server(role.address[e], role.address[Other(e)])])]
    /\ UNCHANGED <<chan, disk, net, crashes, failed, ev, exe, pay, lost, last>>

NextRole == \E e \in Endpoints : EvaluateRole(e)

SpecRole == InitRole /\ [][NextRole]_vars

(***************************************************************************)
(* Payments (src/src/offchainapi/payment_logic.py).  A payment version is  *)
(* the pair of the sender's and the receiver's status.  The module         *)
(* status_logic (Status, is_valid_status_transition, is_valid_initial) is  *)
(* imported by payment_logic.py and is not part of the sources; it is      *)
(* modelled from the rules of the specification's status machine where     *)
(* the sources agree with them: a side never moves to a lower height, the  *)
(* actor leaves the other side alone, and a side that is                   *)
(* ready_for_settlement or beyond enters abort only if the other side is   *)
(* abort already.  Which side enters needs_recipient_signature and settled *)
(* is taken from the sources that use the table: the sender is the side    *)
(* that asks for the recipient's signature (sample_service.py lines        *)
(* 198-199, test_payment_logic.py lines 157-165); the sender enters        *)
(* settled when the receiver is ready, and the receiver enters settled     *)
(* when the sender is settled (sample_service.py lines 275-293,            *)
(* tests/test_sample_service.py lines 173-185).                            *)
(***************************************************************************)
Status ==
    {"none", "needs_kyc_data", "needs_recipient_signature",
     "ready_for_settlement", "settled", "abort"}

Height(status) ==
    CASE status = "none" -> 1
      [] status \in {"needs_kyc_data", "needs_recipient_signature"} -> 2
      [] status = "ready_for_settlement" -> 3
      [] status = "settled" -> 4
      [] status = "abort" -> 5

PastFinality(status) == status \in {"ready_for_settlement", "settled"}

\* mutant: either side may enter any status of the same or a greater height
ValidStep_any_side(old, new, other, actor_is_sender) ==
    \/ new = old
    \/ /\ new # old
       /\ old # "abort"
       /\ Height(new) >= Height(old)
       /\ new = "abort" => (~ PastFinality(old) \/ other = "abort")

ValidStep(old, new, other, actor_is_sender) ==
    \/ new = old
    \/ /\ new # old
       /\ old # "abort"
       /\ Height(new) >= Height(old)
       /\ new = "needs_recipient_signature" => actor_is_sender
       /\ new = "settled" => (IF actor_is_sender THEN PastFinality(other)
                                                 ELSE other = "settled")
       /\ new = "abort" => (~ PastFinality(old) \/ other = "abort")

is_valid_status_transition(sender_old, recv_old, sender_new, recv_new, actor_is_sender) ==
    IF actor_is_sender
    THEN recv_new = recv_old /\ ValidStep(sender_old, sender_new, recv_old, TRUE)
    ELSE sender_new = sender_old /\ ValidStep(recv_old, recv_new, sender_old, FALSE)

is_valid_initial(sender_st, receiver_st, actor_is_sender) ==
    sender_st = "none" /\ receiver_st = "none"

PaymentObject(sender_status, receiver_status) ==
    [sender |-> sender_status, receiver |-> receiver_status]

Roles == {"sender", "receiver"}

OtherRole(r) == IF r = "sender" THEN "receiver" ELSE "sender"

can_change_status(payment, new_status, actor_is_sender) ==
    is_valid_status_transition(
        payment.sender, payment.receiver,
        IF actor_is_sender THEN new_status ELSE payment.sender,
        IF actor_is_sender THEN payment.receiver ELSE new_status,
        actor_is_sender)

good_initial_status(payment, actor_is_sender) ==
    is_valid_initial(payment.sender, payment.receiver, actor_is_sender)

\* TRUE when the check returns, FALSE when it raises PaymentLogicError;
\* is_receipient is what business.is_recipient answers at the checking VASP
check_new_payment(new_payment, is_receipient) ==
    LET my_role == IF is_receipient THEN "receiver" ELSE "sender"
        is_sender == ~ is_receipient
    IN  /\ new_payment[my_role] = "none"
        /\ good_initial_status(new_payment, ~ is_sender)

check_new_update(payment, new_payment, is_receiver) ==
    LET is_sender == ~ is_receiver
        my_role == IF is_receiver THEN "receiver" ELSE "sender"
        other_role == IF my_role = "sender" THEN "receiver" ELSE "sender"
        myself_actor == payment[my_role]
        myself_actor_new == new_payment[my_role]
        other_actor == payment[other_role]
        other_status == other_actor
        other_role_is_sender == ~ is_sender
    IN  /\ myself_actor = myself_actor_new
        /\ can_change_status(payment, other_status, other_role_is_sender)

(***************************************************************************)
(* check_command.  Addresses and reference ids are strings, modelled as    *)
(* sequences of characters; as_str gives the address of the VASP that has  *)
(* a role in the payment.  The two parties of every payment are the two    *)
(* VASPs of the channel, so the checks of lines 236-257 pass.              *)
(***************************************************************************)
Chars == {"a", "b", "_"}

as_str(vasp) == IF vasp = "sender" THEN <<"a">> ELSE <<"a", "b">>

\* str.split(sep): the pieces of s between the occurrences of sep
RECURSIVE split(_, _)
split(s, sep) ==
    IF \E i \in DOMAIN s : s[i] = sep
    THEN LET i == CHOOSE i \in DOMAIN s :
                      s[i] = sep /\ \A j \in 1 .. (i - 1) : s[j] # sep
         IN  <<SubSeq(s, 1, i - 1)>> \o split(SubSeq(s, i + 1, Len(s)), sep)
    ELSE <<s>>

\* lines 267-268: the reference_id is <origin>_XYZ
ref_id_of_origin(ref_id, origin) ==
    LET ref_id_structure == split(ref_id, "_")
    IN  Len(ref_id_structure) > 1 /\ ref_id_structure[1] = origin

\* mutant: commands of the local VASP are checked like the peer's
check_command_recheck(my_role, origin, fresh, payment, new_payment, ref_id) ==
    IF fresh
    THEN /\ ref_id_of_origin(ref_id, as_str(origin))
         /\ check_new_payment(new_payment, my_role = "receiver")
    ELSE check_new_update(payment, new_payment, my_role = "receiver")

\* mutant: the reference_id of a new payment is not examined
check_command_any_ref(my_role, origin, fresh, payment, new_payment, ref_id) ==
    IF origin = OtherRole(my_role)
    THEN IF fresh
         THEN check_new_payment(new_payment, my_role = "receiver")
         ELSE check_new_update(payment, new_payment, my_role = "receiver")
    ELSE TRUE

\* TRUE when check_command returns, FALSE when it raises PaymentLogicError,
\* at the VASP that has my_role in the payment, for a command of the VASP
\* origin; fresh is command.dependencies == [], payment the previous
\* version
check_command(my_role, origin, fresh, payment, new_payment, ref_id) ==
    IF origin = OtherRole(my_role)
    THEN IF fresh
         THEN /\ ref_id_of_origin(ref_id, as_str(origin))
              /\ check_new_payment(new_payment, my_role = "receiver")
         ELSE check_new_update(payment, new_payment, my_role = "receiver")
    ELSE TRUE

\* a command has outcome success when check_command returns at both VASPs
\* of the channel
BothAccept(origin, fresh, payment, new_payment, ref_id) ==
    \A vasp \in Roles :
        check_command(vasp, origin, fresh, payment, new_payment, ref_id)

(***************************************************************************)
(* payment_process_async.  The business context answers                    *)
(* next_kyc_level_to_request, ready_for_settlement and has_settled, and    *)
(* any of its calls may raise BusinessForceAbort: force_abort is the call  *)
(* that raises (1 check_account_existence, 2 next_kyc_level_to_request,    *)
(* 3 next_kyc_to_provide and the calls that provide, 4                     *)
(* ready_for_settlement, 5 has_settled), 0 when none does.                 *)
(***************************************************************************)
BusinessAnswers ==
    [force_abort : 0 .. 5,
     next_kyc : {"none", "needs_kyc_data", "needs_recipient_signature"},
     ready : BOOLEAN,
     has_settled : BOOLEAN]

\* the status computed so far and whether BusinessForceAbort was raised
Stage(current_status, force_abort) ==
    [current_status |-> current_status, force_abort |-> force_abort]

PeerAborted(status, other_status) ==
    IF other_status = "abort" THEN "abort" ELSE status

CheckAccount(current_status, b) ==
    Stage(current_status, current_status = "none" /\ b.force_abort = 1)

NextKyc(current_status, b) ==
    IF b.next_kyc # "none" THEN b.next_kyc ELSE current_status

RequestKyc(st, b) ==
    IF st.force_abort
       \/ st.current_status \notin {"none", "needs_kyc_data", "needs_recipient_signature"}
    THEN st
    ELSE IF b.force_abort = 2 THEN Stage(st.current_status, TRUE)
    ELSE Stage(NextKyc(st.current_status, b), b.force_abort = 3)

ReadyForSettlement(st, b) ==
    IF st.force_abort \/ st.current_status \in {"ready_for_settlement", "settled"}
    THEN st
    ELSE IF b.force_abort = 4 THEN Stage(st.current_status, TRUE)
    ELSE Stage(IF b.ready THEN "ready_for_settlement" ELSE st.current_status, FALSE)

HasSettled(payment, st, is_sender, b) ==
    IF \/ st.force_abort
       \/ st.current_status # "ready_for_settlement"
       \/ ~ can_change_status(payment, "settled", is_sender)
    THEN st
    ELSE IF b.force_abort = 5 THEN Stage(st.current_status, TRUE)
    ELSE Stage(IF b.has_settled THEN "settled" ELSE st.current_status, FALSE)

ForceAbort(payment, st, is_sender) ==
    IF st.force_abort /\ can_change_status(payment, "abort", is_sender)
    THEN "abort"
    ELSE st.current_status

\* mutant: the status computed is not checked
CheckedStatus_unchecked(payment, my_role, current_status, is_sender) ==
    [raised |-> FALSE, payment |-> [payment EXCEPT ![my_role] = current_status]]

CheckedStatus(payment, my_role, current_status, is_sender) ==
    IF ~ can_change_status(payment, current_status, is_sender)
    THEN [raised |-> TRUE, payment |-> payment]
    ELSE [raised |-> FALSE, payment |-> [payment EXCEPT ![my_role] = current_status]]

\* current_status where the try statement ends (lines 527-582)
CurrentStatus(payment, is_receiver, b) ==
    LET is_sender == ~ is_receiver
        my_role == IF is_receiver THEN "receiver" ELSE "sender"
        other_role == IF ~ is_receiver THEN "receiver" ELSE "sender"
    IN  ForceAbort(payment,
            HasSettled(payment,
                ReadyForSettlement(
                    RequestKyc(
                        CheckAccount(PeerAborted(payment[my_role], payment[other_role]), b),
                        b),
                    b),
                is_sender, b),
            is_sender)

\* result: whether PaymentLogicError was raised, and the payment returned
payment_process_async(payment, is_receiver, b) ==
    CheckedStatus(payment, IF is_receiver THEN "receiver" ELSE "sender",
                  CurrentStatus(payment, is_receiver, b), ~ is_receiver)

(***************************************************************************)
(* One payment between a sender VASP and a receiver VASP.  pay records     *)
(* whether the payment has been created, its latest accepted version, the  *)
(* version before the last operation, the version the last operation       *)
(* proposed, the operation, the side that acted and the outcome: "success" *)
(* when the version was accepted, "fail" when the other VASP's check       *)
(* raised and the command was sequenced as a failure, "PaymentLogicError"  *)
(* when payment_process_async raised.                                      *)
(***************************************************************************)
\* answers is what the business context answered in the last
\* payment_process_async
NoAnswers ==
    [force_abort |-> 0, next_kyc |-> "none", ready |-> FALSE, has_settled |-> FALSE]

PayState(exists, payment, previous, proposed, op, actor, outcome) ==
    [exists |-> exists, payment |-> payment, previous |-> previous,
     proposed |-> proposed, op |-> op, actor |-> actor, outcome |-> outcome,
     answers |-> NoAnswers]

Payments == [sender : Status, receiver : Status]

InitPay ==
    /\ InitChan
    /\ exe = Idle
    /\ role = Idle
    /\ lost = 0
    /\ pay = PayState(FALSE, PaymentObject("none", "none"), PaymentObject("none", "none"),
                      PaymentObject("none", "none"), "init", "sender", "")

Checked(passes, new_payment, op, actor) ==
    PayState(TRUE, IF passes THEN new_payment ELSE pay.payment, pay.payment,
             new_payment, op, actor, IF passes THEN "success" ELSE "fail")

\* the peer (actor) creates a payment; the other VASP checks the command
PeerNewPayment(actor, new_payment) ==
    /\ ~ pay.exists
    /\ LET passes == BothAccept(actor, TRUE, pay.payment, new_payment,
                                 as_str(actor) \o <<"_">>)
       IN  pay' = [Checked(passes, new_payment, "check_new_payment", actor)
                      EXCEPT !.exists = passes]
    /\ UNCHANGED <<chan, disk, net, crashes, failed, ev, exe, role, lost, last>>

\* the peer (actor) updates the payment; the other VASP checks the command
PeerUpdate(actor, new_payment) ==
    /\ pay.exists
    /\ pay' = Checked(BothAccept(actor, FALSE, pay.payment, new_payment, << >>),
                      new_payment, "check_new_update", actor)
    /\ UNCHANGED <<chan, disk, net, crashes, failed, ev, exe, role, lost, last>>

Processed(r, actor) ==
    IF r.raised
    THEN PayState(TRUE, pay.payment, pay.payment, pay.payment,
                  "payment_process_async", actor, "PaymentLogicError")
    ELSE Checked(BothAccept(actor, FALSE, pay.payment, r.payment, << >>),
                 r.payment, "payment_process_async", actor)

\* a VASP (actor) processes the payment with its business context and
\* sends the resulting version, which the other VASP checks
LocalProcess(actor, b) ==
    /\ pay.exists
    /\ pay' = [Processed(payment_process_async(pay.payment, actor = "receiver", b), actor)
                  EXCEPT !.answers = b]
    /\ UNCHANGED <<chan, disk, net, crashes, failed, ev, exe, role, lost, last>>

NextPay ==
    \/ \E actor \in Roles, p \in Payments : PeerNewPayment(actor, p)
    \/ \E actor \in Roles, p \in Payments : PeerUpdate(actor, p)
    \/ \E actor \in Roles, b \in BusinessAnswers : LocalProcess(actor, b)

SpecPay == InitPay /\ [][NextPay]_vars

(***************************************************************************)
(* The reference_id of one payment.  pay records whether the payment has   *)
(* been created, the VASP that created it, the reference_id it was created *)
(* with, the reference_id of its latest accepted version, the number of    *)
(* accepted updates, and the last command: its origin, the reference_id    *)
(* of its record and its outcome.  Every command carries the full record   *)
(* of the payment, so an update names a reference_id too; the record is    *)
(* applied to the previous version by StructureChecker.update, which       *)
(* raises StructureException when a write-once field that is set would     *)
(* get another value (payment.py line 131, tests/test_payment.py lines     *)
(* 168-177); sequence_next_command turns every exception of check_command  *)
(* into a failure of the command (executor.py lines 188-205).              *)
(***************************************************************************)
\* the strings of at most MaxRefLen characters
RECURSIVE StringsUpTo(_)
StringsUpTo(n) ==
    IF n = 0
    THEN {<< >>}
    ELSE LET shorter == StringsUpTo(n - 1)
         IN  shorter \cup {Append(r, c) : r \in {x \in shorter : Len(x) = n - 1}, c \in Chars}

RefIds == StringsUpTo(MaxRefLen)

\* mutant: a field that is set is overwritten
update_write_once_overwrite(current, value) ==
    [raised |-> FALSE, value |-> value]

\* the update of a write-once field that holds current: whether
\* StructureException is raised, and the value of the field afterwards
update_write_once(current, value) ==
    IF value # current
    THEN [raised |-> TRUE, value |-> current]
    ELSE [raised |-> FALSE, value |-> current]

RefState(exists, creator, created_ref, ref, updates, op, origin, ref_id, outcome) ==
    [exists |-> exists, creator |-> creator, created_ref |-> created_ref,
     reference_id |-> ref, updates |-> updates, op |-> op, origin |-> origin,
     ref_id |-> ref_id, outcome |-> outcome]

InitRef ==
    /\ InitChan
    /\ exe = Idle
    /\ role = Idle
    /\ lost = 0
    /\ pay = RefState(FALSE, "sender", << >>, << >>, 0, "init", "sender", << >>, "")

\* the VASP origin proposes a new payment with the reference_id ref_id and
\* both statuses none; both VASPs run check_command on it
RefNewPayment(origin, ref_id) ==
    /\ ~ pay.exists
    /\ LET new_payment == PaymentObject("none", "none")
           passes == BothAccept(origin, TRUE, new_payment, new_payment, ref_id)
       IN  pay' = IF passes
                  THEN RefState(TRUE, origin, ref_id, ref_id, 0,
                                "new", origin, ref_id, "success")
                  ELSE RefState(FALSE, pay.creator, << >>, << >>, 0,
                                "new", origin, ref_id, "fail")
    /\ UNCHANGED <<chan, disk, net, crashes, failed, ev, exe, role, lost, last>>

\* the VASP origin proposes an update whose record names ref_id
RefUpdate(origin, ref_id) ==
    /\ pay.exists
    /\ pay.updates < MaxUpdates
    /\ LET payment == PaymentObject("none", "none")
           field == update_write_once(pay.reference_id, ref_id)
           passes == /\ ~ field.raised
                     /\ BothAccept(origin, FALSE, payment, payment, field.value)
       IN  pay' = IF passes
                  THEN RefState(TRUE, pay.creator, pay.created_ref, field.value,
                                pay.updates + 1, "update", origin, ref_id, "success")
                  ELSE RefState(TRUE, pay.creator, pay.created_ref, pay.reference_id,
                                pay.updates, "update", origin, ref_id, "fail")
    /\ UNCHANGED <<chan, disk, net, crashes, failed, ev, exe, role, lost, last>>

NextRef ==
    \/ \E origin \in Roles, ref_id \in RefIds : RefNewPayment(origin, ref_id)
    \/ \E origin \in Roles, ref_id \in RefIds : RefUpdate(origin, ref_id)

SpecRef == InitRef /\ [][NextRef]_vars

(***************************************************************************)
(* The payment processor of src/src/offchainapi/payment_logic.py driven    *)
(* alone: the executors of its channels hand it commands in the order of   *)
(* their sequence (process_command), its tasks run from one await to the   *)
(* next in any interleaving, may be cancelled, and the VASP restarts and   *)
(* calls retry_process_commands.  pay records the processor: net (a        *)
(* network is set), its persistent object_store, reference_id_index and    *)
(* pending_commands (with command_cache, always written with it), the      *)
(* requests its channels have queued, its tasks, the next index of each    *)
(* channel and the last step.  The storage classes and net.sequence_command*)
(* are not part of the source tree: a block of atomic_writes is one step   *)
(* whose writes happen together or, when it raises, not at all, and        *)
(* sequence_command queues the request on the channel.                     *)
(***************************************************************************)
Peers == {"B", "C"}

\* the reference_id of the payment each command carries: commands 2 and 4
\* update the payment command 1 creates, command 3 creates another payment
reference_id == <<1, 1, 2, 1>>

\* the same when the payment of command 3 is given the reference_id of
\* the payment of command 1; check_command compares a new payment's
\* reference_id with no other payment's
reference_id_reused == <<1, 1, 1, 1>>

\* check_command admits only commands of the two VASPs of the channel
PeerOriginated(command) == Origin[command] # get_my_address

command_unique_id(other_str, seq) == <<other_str, seq>>

obligation_exists(p, other_str, seq) ==
    command_unique_id(other_str, seq) \in DOMAIN p.pending_commands

persist_command_obligation(p, other_str, seq, command) ==
    [p EXCEPT !.pending_commands =
                  StorePut(@, command_unique_id(other_str, seq), command)]

release_command_obligation(p, other_str, seq) ==
    [p EXCEPT !.pending_commands = StoreDel(@, {command_unique_id(other_str, seq)})]

\* lines 182-194 and 203-205: release the obligation if it exists
ReleaseObligation(p, other_str, seq) ==
    IF obligation_exists(p, other_str, seq)
    THEN release_command_obligation(p, other_str, seq)
    ELSE p

Task(kind, command, pc) == [kind |-> kind, command |-> command, pc |-> pc]

SetTask(p, uid, pc) == [p EXCEPT !.tasks[uid].pc = pc]

\* the command the processor issues in response to the command of uid
PaymentCommand(uid) == [follows |-> uid]

sequence_command(p, other_str, new_cmd) ==
    [p EXCEPT !.requests = Append(@, [to |-> other_str, command |-> new_cmd])]

\* mutant: an entry of the index is never replaced
store_latest_payment_by_ref_id_first(p, command) ==
    LET version == CHOOSE v \in new_object_versions(command) : TRUE
        ref_id == p.reference_ids[command]
    IN  IF ref_id \in DOMAIN p.reference_id_index
        THEN p
        ELSE [p EXCEPT !.reference_id_index = StorePut(@, ref_id, version)]

store_latest_payment_by_ref_id(p, command) ==
    LET version == CHOOSE v \in new_object_versions(command) : TRUE
        ref_id == p.reference_ids[command]
    IN  IF ref_id \in DOMAIN p.reference_id_index
        THEN IF p.reference_id_index[ref_id] \in get_dependencies(command)
             THEN [p EXCEPT !.reference_id_index[ref_id] = version]
             ELSE p
        ELSE [p EXCEPT !.reference_id_index = StorePut(@, ref_id, version)]

\* mutant: an obligation is recorded for a failed command too
process_command_always_obliged(p, other_str, command, seq, status_success) ==
    LET uid == command_unique_id(other_str, seq)
    IN  IF ~ status_success
        THEN [persist_command_obligation(p, other_str, seq, command)
                 EXCEPT !.tasks = StorePut(@, uid, Task("failure", command, "scheduled"))]
        ELSE LET p1 == [p EXCEPT !.object_store = @ \cup new_object_versions(command)]
                 p2 == store_latest_payment_by_ref_id(p1, command)
                 p3 == persist_command_obligation(p2, other_str, seq, command)
             IN  [p3 EXCEPT !.tasks = StorePut(@, uid, Task("success", command, "start"))]

process_command(p, other_str, command, seq, status_success) ==
    LET uid == command_unique_id(other_str, seq)
    IN  IF ~ status_success
        THEN [p EXCEPT !.tasks = StorePut(@, uid, Task("failure", command, "scheduled"))]
        ELSE LET p1 == [p EXCEPT !.object_store = @ \cup new_object_versions(command)]
                 p2 == store_latest_payment_by_ref_id(p1, command)
                 p3 == persist_command_obligation(p2, other_str, seq, command)
             IN  [p3 EXCEPT !.tasks = StorePut(@, uid, Task("success", command, "start"))]

\* mutant: the origin of the command is not looked at
process_command_success_async_any_origin(p, uid) ==
    IF ~ p.net
    THEN SetTask(p, uid, "error")
    ELSE IF ~ obligation_exists(p, uid[1], uid[2])
    THEN SetTask(p, uid, "returned")
    ELSE SetTask(p, uid, "business")

\* process_command_success_async from its start to the first await
\* (payment_process_async) or to its end
process_command_success_async(p, uid) ==
    IF ~ p.net
    THEN SetTask(p, uid, "error")
    ELSE IF ~ obligation_exists(p, uid[1], uid[2])
    THEN SetTask(p, uid, "returned")
    ELSE IF PeerOriginated(p.tasks[uid].command)
    THEN SetTask(p, uid, "business")
    ELSE SetTask(ReleaseObligation(p, uid[1], uid[2]), uid, "done")

ProcessAnswers == {"changed", "cannot_sequence", "unchanged", "raises"}

\* mutant: the obligation is released although no request could be queued
after_payment_process_async_released(p, uid, answer) ==
    CASE answer = "changed" ->
             SetTask(ReleaseObligation(sequence_command(p, uid[1], PaymentCommand(uid)),
                                       uid[1], uid[2]), uid, "send")
      [] answer = "cannot_sequence" ->
             SetTask(ReleaseObligation(p, uid[1], uid[2]), uid, "error")
      [] answer = "unchanged" ->
             SetTask(ReleaseObligation(p, uid[1], uid[2]), uid, "done")
      [] OTHER -> SetTask(p, uid, "error")

\* mutant: the request is sent before the obligation is released
after_payment_process_async_send_first(p, uid, answer) ==
    CASE answer = "changed" ->
             SetTask(sequence_command(p, uid[1], PaymentCommand(uid)), uid, "send")
      [] answer = "cannot_sequence" -> SetTask(p, uid, "error")
      [] answer = "unchanged" ->
             SetTask(ReleaseObligation(p, uid[1], uid[2]), uid, "done")
      [] OTHER -> SetTask(p, uid, "error")

\* process_command_success_async from the return of payment_process_async
\* to the next await (send_request) or to its end: the payment has changed
\* and the request is sequenced and the obligation released in one block of
\* atomic_writes, or sequence_command raises in the block, or the payment has
\* not changed, or payment_process_async raised
after_payment_process_async(p, uid, answer) ==
    CASE answer = "changed" ->
             SetTask(ReleaseObligation(sequence_command(p, uid[1], PaymentCommand(uid)),
                                       uid[1], uid[2]), uid, "send")
      [] answer = "cannot_sequence" -> SetTask(p, uid, "error")
      [] answer = "unchanged" ->
             SetTask(ReleaseObligation(p, uid[1], uid[2]), uid, "done")
      [] OTHER -> SetTask(p, uid, "error")

\* process_command_success_async from the return of send_request to its end
after_send_request(p, uid, ok) ==
    IF ok
    THEN SetTask(ReleaseObligation(p, uid[1], uid[2]), uid, "done")
    ELSE SetTask(p, uid, "error")

\* mutant: no task is created for the obligations in the log
retry_process_commands_none(p) ==
    [uid \in {} |-> Task("success", 0, "start")]

\* the tasks retry_process_commands creates
retry_process_commands(p) ==
    [uid \in DOMAIN p.pending_commands |->
        Task("success", p.pending_commands[uid], "start")]

InitProcessor ==
    [net |-> FALSE, object_store |-> {}, reference_id_index |-> << >>,
     pending_commands |-> << >>, requests |-> << >>, tasks |-> << >>,
     next_seq |-> [other \in Peers |-> 0], restarts |-> 0,
     op |-> "init", uid |-> <<"B", 0>>, answer |-> "", reached |-> "",
     reference_ids |-> reference_id]

InitProc ==
    /\ InitChan
    /\ exe = Idle
    /\ role = Idle
    /\ lost = 0
    /\ pay = InitProcessor

\* the commands the processor was handed as successes, and the versions
\* they depend on, which the executor has removed from its live objects
\* (src/src/offchainapi/executor.py, set_success)
Succeeded(p) == {c \in Commands : new_object_versions(c) \subseteq p.object_store}

Consumed(p) == UNION {get_dependencies(c) : c \in Succeeded(p)}

\* a task that has ended is no longer among the tasks; reached is where
\* the task of the step is after it
Ended == {"done", "error", "returned", "cancelled"}

ProcStep(p, op, uid, answer) ==
    /\ pay' = [p EXCEPT !.op = op, !.uid = uid, !.answer = answer,
                        !.reached = IF uid \in DOMAIN p.tasks THEN p.tasks[uid].pc ELSE "",
                        !.tasks = [t \in {x \in DOMAIN p.tasks : p.tasks[x].pc \notin Ended}
                                      |-> p.tasks[t]]]
    /\ UNCHANGED <<chan, disk, net, crashes, failed, ev, exe, role, lost, last>>

ProcSetNetwork ==
    /\ ~ pay.net
    /\ ProcStep([pay EXCEPT !.net = TRUE], "set_network", pay.uid, "")

\* the executor of the channel with other hands over its next command: as
\* a success only a command whose dependencies earlier successes created
\* and no success has consumed, and whose versions are new
ProcProcessCommand(other, command, status_success) ==
    /\ pay.next_seq[other] < MaxProcessed
    /\ status_success
           => /\ get_dependencies(command) \subseteq pay.object_store \ Consumed(pay)
              /\ new_object_versions(command) \cap pay.object_store = {}
    /\ LET seq == pay.next_seq[other]
       IN  ProcStep(process_command([pay EXCEPT !.next_seq[other] = @ + 1],
                                    other, command, seq, status_success),
                    "process_command", command_unique_id(other, seq),
                    IF status_success THEN "success" ELSE "failure")

Running(uid, kind, pc) ==
    /\ uid \in DOMAIN pay.tasks
    /\ pay.tasks[uid].kind = kind
    /\ pay.tasks[uid].pc = pc

ProcTaskStart(uid) ==
    /\ Running(uid, "success", "start")
    /\ ProcStep(process_command_success_async(pay, uid), "start", uid, "")

ProcTaskBusiness(uid, answer) ==
    /\ Running(uid, "success", "business")
    /\ ProcStep(after_payment_process_async(pay, uid, answer), "business", uid, answer)

ProcTaskSent(uid, ok) ==
    /\ Running(uid, "success", "send")
    /\ ProcStep(after_send_request(pay, uid, ok), "sent", uid,
                IF ok THEN "ok" ELSE "NetworkException")

\* process_command_failure_async logs the error
ProcTaskFailure(uid) ==
    /\ Running(uid, "failure", "scheduled")
    /\ ProcStep(SetTask(pay, uid, "done"), "failure", uid, "")

\* a task is cancelled before it runs or where it awaits: CancelledError
\* is raised again
ProcCancel(uid) ==
    /\ \E pc \in {"start", "business", "send"} : Running(uid, "success", pc)
    /\ ProcStep(SetTask(pay, uid, "cancelled"), "cancel", uid, "")

\* the VASP stops, its tasks are gone, and it starts again from its
\* persistent state: a processor without network, retry_process_commands
ProcRestart ==
    /\ pay.restarts < MaxRestarts
    /\ ProcStep([pay EXCEPT !.restarts = @ + 1, !.net = FALSE,
                            !.tasks = retry_process_commands(pay)],
                "restart", pay.uid, "")

Uids == Peers \X (0 .. MaxProcessed - 1)

NextProc ==
    \/ ProcSetNetwork
    \/ \E other \in Peers, command \in Commands, status_success \in BOOLEAN :
           ProcProcessCommand(other, command, status_success)
    \/ \E uid \in Uids : ProcTaskStart(uid)
    \/ \E uid \in Uids, answer \in ProcessAnswers : ProcTaskBusiness(uid, answer)
    \/ \E uid \in Uids, ok \in BOOLEAN : ProcTaskSent(uid, ok)
    \/ \E uid \in Uids : ProcTaskFailure(uid)
    \/ \E uid \in Uids : ProcCancel(uid)
    \/ ProcRestart

SpecProc == InitProc /\ [][NextProc]_vars

(***************************************************************************)
(* The payment processor handed successful commands, when processing meets *)
(* no error: the network is set before a task runs, payment_process_async returns a payment,        *)
(* changed or not, the request that follows can be sequenced, and no task  *)
(* is cancelled; the VASP still stops at any point and restarts.  The      *)
(* event loop runs every task that can run: weak fairness on each step of  *)
(* each task and on set_network.                                           *)
(***************************************************************************)
ReturnedAnswers == {"changed", "unchanged"}

NextProcLive ==
    \/ ProcSetNetwork
    \/ \E other \in Peers, command \in Commands :
           ProcProcessCommand(other, command, TRUE)
    \/ \E uid \in Uids : pay.net /\ ProcTaskStart(uid)
    \/ \E uid \in Uids, answer \in ReturnedAnswers : ProcTaskBusiness(uid, answer)
    \/ \E uid \in Uids, ok \in BOOLEAN : ProcTaskSent(uid, ok)
    \/ ProcRestart

ProcFairness ==
    /\ WF_vars(ProcSetNetwork)
    /\ \A uid \in Uids :
           /\ WF_vars(pay.net /\ ProcTaskStart(uid))
           /\ WF_vars(\E answer \in ReturnedAnswers : ProcTaskBusiness(uid, answer))
           /\ WF_vars(\E ok \in BOOLEAN : ProcTaskSent(uid, ok))

SpecProcLive == InitProc /\ [][NextProcLive]_vars /\ ProcFairness

(***************************************************************************)
(* The reference-id index of the processor: the executors hand the         *)
(* processor any admissible sequence of commands, where the payment of     *)
(* command 3 has a reference_id of its own or that of the payment of       *)
(* command 1, and the VASP restarts.                                       *)
(***************************************************************************)
InitIndex ==
    /\ InitChan
    /\ exe = Idle
    /\ role = Idle
    /\ lost = 0
    /\ \E ids \in {reference_id, reference_id_reused} :
           pay = [InitProcessor EXCEPT !.reference_ids = ids]

NextIndex ==
    \/ \E other \in Peers, command \in Commands, status_success \in BOOLEAN :
           ProcProcessCommand(other, command, status_success)
    \/ ProcRestart

SpecIndex == InitIndex /\ [][NextIndex]_vars

(***************************************************************************)
(* Properties of the channel, checked under Spec.                          *)
(***************************************************************************)
Min(a, b) == IF a <= b THEN a ELSE b

Executor(e) == chan[e].executor

Confirmed(e) == Executor(e).last_confirmed

IsOutcome(response) ==
    response.status = "success"
    \/ (response.status = "failure" /\ ~ response.protocol_error)

C2_ConfirmedInOrder ==
    \A e \in Endpoints :
        /\ ErrLastConfirmed \notin failed[e]
        /\ ev.err # ErrLastConfirmed
        /\ Confirmed(e) <= Len(Executor(e).seq)
        /\ \A i \in DOMAIN Executor(e).seq :
               (i <= Confirmed(e)) <=> (Executor(e).seq[i].commit_status # "None")

\* an executor with three confirmed commands, a success and a failure
C2_Witness ==
    \E e \in Endpoints :
        /\ Confirmed(e) >= 3
        /\ \E i, j \in 1 .. 3 :
               /\ Executor(e).seq[i].commit_status = "True"
               /\ Executor(e).seq[j].commit_status = "False"

\* C3: a request whose seq is below other_next_seq and whose command is the
\* stored one is answered with the stored response and changes nothing, and
\* a stored request (with its response) is never changed afterwards.
C3_DuplicateRequest ==
    [][/\ (/\ ev'.op = "handle_request"
           /\ ev'.arg.seq < chan[ev'.e].other_next_seq
           /\ chan[ev'.e].other_requests[ev'.arg.seq + 1].command = ev'.arg.command)
          => (/\ chan' = chan
              /\ disk' = disk
              /\ ev'.err = ""
              /\ ev'.out = <<chan[ev'.e].other_requests[ev'.arg.seq + 1].response>>)
       /\ \A e \in Endpoints : \A i \in DOMAIN chan[e].other_requests :
              /\ i \in DOMAIN chan'[e].other_requests
              /\ chan'[e].other_requests[i] = chan[e].other_requests[i]
      ]_vars

\* the duplicate of a request older than the last one stored was handled by
\* an endpoint that has an unanswered request of its own
C3_Witness ==
    /\ ev.op = "handle_request"
    /\ ev.arg.seq + 1 < chan[ev.e].other_next_seq
    /\ chan[ev.e].other_requests[ev.arg.seq + 1].command = ev.arg.command
    /\ pending_responses(chan[ev.e]) > 0
    /\ ev.out = <<chan[ev.e].other_requests[ev.arg.seq + 1].response>>

\* C4: a success or command-failure response for a request that already
\* has a response is a no-op.
C4_DuplicateResponse ==
    [][(/\ ev'.op = "handle_response"
        /\ IsOutcome(ev'.arg)
        /\ ev'.arg.seq < Len(chan[ev'.e].my_requests)
        /\ has_response(chan[ev'.e].my_requests[ev'.arg.seq + 1]))
       => (/\ chan' = chan
           /\ disk' = disk
           /\ failed' = failed
           /\ ev'.err = ""
           /\ ev'.out = << >>)
      ]_vars

\* a response was handled for a request whose successor is answered too
C4_Witness ==
    /\ ev.op = "handle_response"
    /\ IsOutcome(ev.arg)
    /\ ev.arg.seq + 2 <= Len(chan[ev.e].my_requests)
    /\ has_response(chan[ev.e].my_requests[ev.arg.seq + 2])
    /\ has_response(chan[ev.e].my_requests[ev.arg.seq + 1])

FlagsOrdered(store) ==
    \A v \in DOMAIN store : store[v].actually_live => store[v].potentially_live

\* C5: in every reachable state of either executor, after any calls of
\* sequence_next_command, set_success and set_fail, every object of the
\* store with actually_live = true has potentially_live = true.
C5_ActuallyLiveIsPotentiallyLive ==
    /\ FlagsOrdered(exe.old.object_store)
    /\ FlagsOrdered(exe.new.object_store)

\* C5 witness: a set_success consumed an actually live version and made
\* the version it created actually live, in both executors, after a
\* set_fail had removed another version.
C5_Witness ==
    /\ exe.op = "set_success"
    /\ exe.raised_old = "" /\ exe.raised_new = ""
    /\ get_dependencies(exe.new.seq[exe.seq_no + 1].command) # {}
    /\ \E v \in DOMAIN exe.new.object_store : exe.new.object_store[v].actually_live
    /\ \E v \in DOMAIN exe.old.object_store : exe.old.object_store[v].actually_live
    /\ \E i \in DOMAIN exe.new.seq : exe.new.seq[i].commit_status = "False"

\* the command the last set_success call was applied to
Committed(ex) == ex.seq[exe.seq_no + 1].command

CreatedLive(ex) ==
    \A v \in new_object_versions(Committed(ex)) :
        v \in DOMAIN ex.object_store /\ ex.object_store[v].actually_live

DependenciesRemoved(ex) ==
    \A d \in get_dependencies(Committed(ex)) : d \notin DOMAIN ex.object_store

DependenciesDead(ex) ==
    \A d \in get_dependencies(Committed(ex)) :
        \/ d \notin DOMAIN ex.object_store
        \/ ~ ex.object_store[d].actually_live /\ ~ ex.object_store[d].potentially_live

C10_RoleAssignment ==
    /\ role.address.A # role.address.B =>
          \A i \in DOMAIN role.evaluated.A, j \in DOMAIN role.evaluated.B :
              role.evaluated.A[i].is_client # role.evaluated.B[j].is_client
    /\ \A e \in Endpoints : \A i \in DOMAIN role.evaluated[e] :
          /\ role.evaluated[e][i].is_server = ~ role.evaluated[e][i].is_client
          /\ role.evaluated[e][i] = role.evaluated[e][1]

\* C10 witness: both endpoints evaluated their role twice, for distinct
\* addresses whose last bits differ, where the smaller address is the
\* client.
C10_Witness ==
    /\ role.address.A > role.address.B
    /\ last_bit(role.address.A) # last_bit(role.address.B)
    /\ Len(role.evaluated.A) = MaxEvaluations
    /\ Len(role.evaluated.B) = MaxEvaluations
    /\ role.evaluated.B[2].is_client

\* the side sd moved from ready_for_settlement or beyond to abort while the
\* other side was not abort
BrokeFinality(before, after, sd) ==
    /\ PastFinality(before[sd])
    /\ after[sd] = "abort"
    /\ before[OtherRole(sd)] # "abort"

\* C7: finality barrier.  No accepted payment version, whether a peer
\* update that passed check_new_update or a local update produced by
\* payment_process_async, moves a side that is ready_for_settlement or
\* beyond to abort unless the other side is abort already; a peer update
\* that attempts it is sequenced as a failure and leaves the statuses as
\* they were.
C7_FinalityBarrier ==
    /\ \A sd \in Roles : ~ BrokeFinality(pay.previous, pay.payment, sd)
    /\ (pay.op = "check_new_update" /\ BrokeFinality(pay.previous, pay.proposed, pay.actor))
          => (pay.outcome = "fail" /\ pay.payment = pay.previous)

\* C7 witness: the sender VASP checked an update of the receiver that
\* moves the receiver from ready_for_settlement to abort while the sender
\* is not abort.
C7_Witness ==
    /\ pay.op = "check_new_update"
    /\ pay.actor = "receiver"
    /\ pay.previous.receiver = "ready_for_settlement"
    /\ pay.proposed.receiver = "abort"
    /\ pay.previous.sender = "none"
    /\ pay.proposed.sender = pay.previous.sender

\* the command of a request has an outcome in the executor's sequence
Sequenced(ex, c) ==
    \E k \in DOMAIN ex.seq : ex.seq[k].command = c /\ ex.seq[k].commit_status # "None"

\* the i-th request of endpoint e has a success or command failure response
\* and its command has an outcome in both executors
Settled(e, i) ==
    /\ i <= Len(chan[e].my_requests)
    /\ has_response(chan[e].my_requests[i])
    /\ IsOutcome(chan[e].my_requests[i].response)
    /\ \A x \in Endpoints : Sequenced(Executor(x), chan[e].my_requests[i].command)

\* C9: when messages are eventually delivered and the endpoints keep
\* retransmitting, every request created by sequence_command_local
\* eventually has a success or command failure response recorded and its
\* command eventually has an outcome in both executors' sequences.
C9_EveryRequestSettles ==
    \A e \in Endpoints : \A i \in 1 .. MaxProposals :
        (i <= Len(chan[e].my_requests)) ~> Settled(e, i)

\* C9 witness: both endpoints proposed, MaxProposals requests in all, the
\* network lost a message, and every request is settled.
C9_Witness ==
    /\ Len(chan["A"].my_requests) > 0 /\ Len(chan["B"].my_requests) > 0
    /\ \A e \in Endpoints : \A i \in DOMAIN chan[e].my_requests : Settled(e, i)
    /\ lost = MaxLoss
    /\ Len(chan["A"].my_requests) + Len(chan["B"].my_requests) = MaxProposals

(***************************************************************************)
(* Properties of handle_request with an arbitrary peer, checked under      *)
(* SpecChannel.                                                            *)
(***************************************************************************)
\* the step handled the request ev'.arg at endpoint ev'.e
HandledRequest == ev'.op = "handle_request"

\* the server defers the request: it has unanswered requests of its own
Deferred(e) == IsServer(e) /\ pending_responses(chan[e]) > 0

\* the request is rejected as malformed: a server is given a command_seq
Malformed(e, request) == IsServer(e) /\ request.command_seq # NoneSeq

\* the requests stored are those of seq 0, 1, 2, ... in this order
ConsecutiveSeq(st) ==
    /\ st.other_next_seq = Len(st.other_requests)
    /\ \A i \in DOMAIN st.other_requests : st.other_requests[i].seq = i - 1

\* C11 as stated: every request with seq above other_next_seq that a server
\* with unanswered requests does not defer is answered 'missing' and changes
\* nothing; requests are stored in consecutive seq order.
C11_FutureRequestMissing ==
    [][/\ (/\ HandledRequest
           /\ ev'.arg.seq > chan[ev'.e].other_next_seq
           /\ ~ Deferred(ev'.e))
          => (/\ ev'.out = <<make_protocol_error(ev'.arg, "missing")>>
              /\ ev'.err = ""
              /\ chan' = chan)
       /\ \A e \in Endpoints : ConsecutiveSeq(chan'[e])
      ]_vars

\* C11 amended: every request with seq above other_next_seq that a server
\* neither rejects as malformed (command_seq given) nor defers is answered
\* 'missing' and changes nothing, so the request of seq other_next_seq is
\* handled afterwards as if the later one had not arrived; requests are
\* stored in consecutive seq order.
C11_WellFormedFutureRequestMissing ==
    [][/\ (/\ HandledRequest
           /\ ev'.arg.seq > chan[ev'.e].other_next_seq
           /\ ~ Malformed(ev'.e, ev'.arg)
           /\ ~ Deferred(ev'.e))
          => (/\ ev'.out = <<make_protocol_error(ev'.arg, "missing")>>
              /\ ev'.err = ""
              /\ chan' = chan
              /\ disk' = disk)
       /\ \A e \in Endpoints : ConsecutiveSeq(chan'[e])
      ]_vars

\* C11 witness: a client that has requests of its own unanswered was handed
\* the request of seq 1 before the request of seq 0 and answered 'missing'
C11_Witness ==
    /\ ev.op = "handle_request"
    /\ IsClient(ev.e)
    /\ pending_responses(chan[ev.e]) > 0
    /\ ev.arg.seq > chan[ev.e].other_next_seq
    /\ ev.out = <<make_protocol_error(ev.arg, "missing")>>

\* C12: a request whose seq is below other_next_seq and whose command is not
\* the one stored at that seq is answered 'conflict' with the stored command
\* attached, and the stored request, its response, other_next_seq and the
\* executor (the whole channel state and the persisted state) stay as they
\* are.
C12_ConflictKeepsStored ==
    [][(/\ HandledRequest
        /\ ev'.arg.seq < chan[ev'.e].other_next_seq
        /\ chan[ev'.e].other_requests[ev'.arg.seq + 1].command # ev'.arg.command)
       => (/\ ev'.out = <<[make_protocol_error(ev'.arg, "conflict") EXCEPT
                             !.previous_command =
                                 chan[ev'.e].other_requests[ev'.arg.seq + 1].command]>>
           /\ ev'.err = ""
           /\ chan' = chan
           /\ disk' = disk)
      ]_vars

\* C12 witness: a request was answered 'conflict'; the request stored at its
\* seq has a success response and another command
C12_Witness ==
    /\ ev.op = "handle_request"
    /\ ev.arg.seq < chan[ev.e].other_next_seq
    /\ chan[ev.e].other_requests[ev.arg.seq + 1].command # ev.arg.command
    /\ is_success(chan[ev.e].other_requests[ev.arg.seq + 1])
    /\ Len(ev.out) = 1 /\ ev.out[1].code = "conflict"

\* the client is handed the request of seq other_next_seq
ClientInOrder ==
    /\ HandledRequest
    /\ IsClient(ev'.e)
    /\ ev'.arg.seq = chan[ev'.e].other_next_seq

\* C13: a client handed the in-order request with command_seq above its
\* executor's next_seq() answers 'wait' and changes nothing; handed the
\* in-order request with command_seq equal to next_seq() (the preceding
\* slots are sequenced) it accepts it: the request is stored with an
\* outcome for that slot and the outcome is sent.
C13_ClientWaits ==
    [][/\ (ClientInOrder /\ ev'.arg.command_seq > next_final_sequence(chan[ev'.e]))
          => (/\ ev'.out = <<make_protocol_error(ev'.arg, "wait")>>
              /\ ev'.err = ""
              /\ chan' = chan
              /\ disk' = disk)
       /\ (ClientInOrder /\ ev'.arg.command_seq = next_final_sequence(chan[ev'.e]))
          => (/\ ev'.err = ""
              /\ chan'[ev'.e].other_next_seq = chan[ev'.e].other_next_seq + 1
              /\ Len(chan'[ev'.e].other_requests) = Len(chan[ev'.e].other_requests) + 1
              /\ ev'.out = <<chan'[ev'.e].other_requests[ev'.arg.seq + 1].response>>
              /\ IsOutcome(ev'.out[1])
              /\ ev'.out[1].command_seq = ev'.arg.command_seq
              /\ next_final_sequence(chan'[ev'.e]) = ev'.arg.command_seq + 1)
      ]_vars

\* C13 witness: a client with an unanswered request of its own was handed
\* the server's first request, sequenced by the server at index 1, and
\* answered 'wait'
C13_Witness ==
    /\ ev.op = "handle_request"
    /\ IsClient(ev.e)
    /\ pending_responses(chan[ev.e]) > 0
    /\ ev.arg.seq = chan[ev.e].other_next_seq
    /\ ev.arg.command_seq = 1
    /\ next_final_sequence(chan[ev.e]) = 0
    /\ ev.out = <<make_protocol_error(ev.arg, "wait")>>

\* the requests an endpoint created: a client's carry no command_seq, a
\* server's carry the index at which its executor holds their command
OwnRequestsStamped(e, st) ==
    \A i \in DOMAIN st.my_requests :
        IF IsClient(e)
        THEN st.my_requests[i].command_seq = NoneSeq
        ELSE /\ st.my_requests[i].command_seq \in 0 .. (next_seq(st.executor) - 1)
             /\ st.executor.seq[st.my_requests[i].command_seq + 1].command
                    = st.my_requests[i].command

\* C14: a server handed a request with seq >= other_next_seq that carries a
\* command_seq answers 'malformed' and changes nothing (other_next_seq,
\* other_requests, pending_requests, executor); every request a client
\* created has command_seq None and every request a server created has the
\* index at which the server's executor holds its command.
C14_ServerRejectsMalformed ==
    [][/\ (/\ HandledRequest
           /\ IsServer(ev'.e)
           /\ ev'.arg.seq >= chan[ev'.e].other_next_seq
           /\ ev'.arg.command_seq # NoneSeq)
          => (/\ ev'.out = <<make_protocol_error(ev'.arg, "malformed")>>
              /\ ev'.err = ""
              /\ chan' = chan
              /\ disk' = disk)
       /\ \A e \in Endpoints : OwnRequestsStamped(e, chan'[e])
      ]_vars

\* C14 witness: a server that has created a request, still unanswered, was
\* handed the in-order request carrying the command_seq the server would
\* assign and answered 'malformed'
C14_Witness ==
    /\ ev.op = "handle_request"
    /\ IsServer(ev.e)
    /\ pending_responses(chan[ev.e]) > 0
    /\ ev.arg.seq = chan[ev.e].other_next_seq
    /\ ev.arg.command_seq = next_final_sequence(chan[ev.e])
    /\ ev.out = <<make_protocol_error(ev.arg, "malformed")>>

(***************************************************************************)
(* Properties of the executors driven alone, checked under SpecExec.       *)
(***************************************************************************)
\* the checks of the last sequence_next_command call on the executor in the
\* state before: dependency liveness (own or peer predicate) and the
\* processor's check
ChecksPass(before) ==
    /\ all_true(before.object_store, get_dependencies(exe'.command),
                Origin[exe'.command] = get_my_address)
    /\ exe'.call.valid

\* the command of the call was appended to the sequence, without an outcome
Appended(before, after) ==
    after.seq = Append(before.seq, [command |-> exe'.command, commit_status |-> "None"])

\* what the claim says of one sequence_next_command call
SequencedIfGoodOrAudited(before, after, raised) ==
    /\ (ChecksPass(before) \/ ~ exe'.call.do_not_sequence_errors) => Appended(before, after)
    /\ ~ (ChecksPass(before) \/ ~ exe'.call.do_not_sequence_errors)
          => (after.seq = before.seq /\ next_seq(after) = next_seq(before))
    /\ ChecksPass(before) <=> (raised = "")
    /\ ~ ChecksPass(before) => after.object_store = before.object_store

\* C15: sequence_next_command appends the command if and only if the checks
\* pass or do_not_sequence_errors is false; when a check fails it raises
\* in both modes and the object store is unchanged, and in strict mode
\* next_seq() is unchanged; a server whose strict sequencing fails in
\* sequence_command_local makes no request and sends nothing.
C15_SequenceNextCommand ==
    [][/\ exe'.op = "sequence_next_command"
          => (/\ SequencedIfGoodOrAudited(exe.old, exe'.old, exe'.raised_old)
              /\ SequencedIfGoodOrAudited(exe.new, exe'.new, exe'.raised_new))
       /\ (exe'.op = "sequence_command_local" /\ ~ ChecksPass(exe.old))
          => (/\ exe'.raised_old = ErrCannotSequence
              /\ exe'.old = exe.old
              /\ exe'.call.my_next_seq = 0
              /\ exe'.call.my_requests = << >>
              /\ exe'.call.sent = << >>)
       /\ (exe'.op = "sequence_command_local" /\ ChecksPass(exe.old))
          => (/\ exe'.raised_old = ""
              /\ exe'.call.my_next_seq = 1
              /\ Len(exe'.call.my_requests) = 1
              /\ exe'.call.sent = exe'.call.my_requests
              /\ Appended(exe.old, exe'.old))
      ]_vars

\* C15 witness: a command whose dependency is not live was sequenced with
\* do_not_sequence_errors false: both executors raised, both appended it,
\* after an earlier call had inserted an object
C15_Witness ==
    /\ exe.op = "sequence_next_command"
    /\ ~ exe.call.do_not_sequence_errors
    /\ get_dependencies(exe.command) # {}
    /\ exe.raised_old # "" /\ exe.raised_new # ""
    /\ exe.old.seq[Len(exe.old.seq)].command = exe.command
    /\ exe.new.seq[Len(exe.new.seq)].command = exe.command
    /\ DOMAIN exe.new.object_store # {}
    /\ new_object_versions(exe.command) \cap DOMAIN exe.new.object_store = {}

\* every dependency of the command of the call is in the store with the flag
PotentiallyLive(store) ==
    \A d \in get_dependencies(exe'.command) :
        d \in DOMAIN store /\ store[d].potentially_live

ActuallyLive(store) ==
    \A d \in get_dependencies(exe'.command) :
        d \in DOMAIN store /\ store[d].actually_live

\* what the claim says of one sequence_next_command call
LivenessByOrigin(before, after, raised) ==
    LET own == Origin[exe'.command] = get_my_address
    IN  /\ (own /\ exe'.call.valid)
           => ((raised = "") <=> PotentiallyLive(before.object_store))
        /\ (~ own /\ exe'.call.valid)
           => ((raised = "") <=> ActuallyLive(before.object_store))
        /\ (~ own /\ ~ ActuallyLive(before.object_store))
           => (/\ raised # ""
               /\ after.object_store = before.object_store
               /\ ~ exe'.call.do_not_sequence_errors => Appended(before, after))
        /\ raised = ""
           => \A v \in new_object_versions(exe'.command) :
                  v \in DOMAIN after.object_store /\ after.object_store[v].potentially_live

\* C16: a command of the local VASP is accepted when every dependency is in
\* the store with potentially_live, a command of the peer only when every
\* dependency is in the store with actually_live; a peer command with a
\* dependency that is absent or only potentially live raises, creates no
\* object and (unless strict) is appended, to be confirmed as a failure.
C16_LivenessByOrigin ==
    [][exe'.op = "sequence_next_command"
          => (/\ LivenessByOrigin(exe.old, exe'.old, exe'.raised_old)
              /\ LivenessByOrigin(exe.new, exe'.new, exe'.raised_new))
      ]_vars

\* C16 witness: a peer command whose dependency is in both stores
\* potentially live but not actually live, and whose processor check
\* passes, was sequenced with do_not_sequence_errors false and raised
C16_Witness ==
    /\ exe.op = "sequence_next_command"
    /\ Origin[exe.command] # get_my_address
    /\ exe.call.valid /\ ~ exe.call.do_not_sequence_errors
    /\ exe.raised_old # "" /\ exe.raised_new # ""
    /\ \E d \in get_dependencies(exe.command) :
           /\ d \in DOMAIN exe.old.object_store /\ d \in DOMAIN exe.new.object_store
           /\ exe.old.object_store[d].potentially_live
           /\ exe.new.object_store[d].potentially_live
           /\ ~ exe.old.object_store[d].actually_live
           /\ ~ exe.new.object_store[d].actually_live

\* the versions set_fail(seq_no) is to remove from the executor before: those
\* the command at seq_no creates, when the call passes its assertion and
\* finds the command
FailedVersions(before, seq_no) ==
    IF seq_no = before.last_confirmed /\ seq_no < Len(before.seq)
    THEN new_object_versions(before.seq[seq_no + 1].command)
    ELSE {}

\* the store after holds the objects of the store before, as they were,
\* but for the versions removed
OnlyRemoved(before, after, removed) ==
    /\ DOMAIN after.object_store = (DOMAIN before.object_store) \ removed
    /\ \A v \in DOMAIN after.object_store :
           after.object_store[v] = before.object_store[v]

\* C17: set_fail(n) removes from the object store exactly the versions
\* command n creates that are present and changes nothing else in the store:
\* the dependencies of the failed command keep their presence and flags and
\* no version is added or made live again.
C17_SetFailFrame ==
    [][exe'.op = "set_fail"
          => (/\ OnlyRemoved(exe.old, exe'.old, FailedVersions(exe.old, exe'.seq_no))
              /\ OnlyRemoved(exe.new, exe'.new, FailedVersions(exe.new, exe'.seq_no)))
      ]_vars

\* C17 witness: set_fail returned in both executors for a command whose
\* created version was in both stores and is gone, and whose dependency is
\* still in both stores, actually live
C17_Witness ==
    /\ exe.op = "set_fail"
    /\ exe.raised_old = "" /\ exe.raised_new = ""
    /\ LET command == exe.new.seq[exe.seq_no + 1].command
       IN  /\ exe.old.seq[exe.seq_no + 1].command = command
           /\ exe.call.removed = new_object_versions(command)
           /\ exe.call.removed # {}
           /\ get_dependencies(command) # {}
           /\ \A d \in get_dependencies(command) :
                  /\ d \in DOMAIN exe.old.object_store
                  /\ exe.old.object_store[d].actually_live
                  /\ d \in DOMAIN exe.new.object_store
                  /\ exe.new.object_store[d].actually_live

\* the call of set_outcome the step made, if it made one: it is for the
\* index of the call, whose commit_status was None, carries the outcome of
\* the call, which is now the commit_status, and follows every earlier one
NotifiedOnce(before, after) ==
    \/ after.outcomes = before.outcomes
    \/ /\ exe'.op \in {"set_success", "set_fail"}
       /\ after.outcomes = Append(before.outcomes,
              [seq_no |-> exe'.seq_no, is_success |-> (exe'.op = "set_success")])
       /\ before.seq[exe'.seq_no + 1].commit_status = "None"
       /\ after.seq[exe'.seq_no + 1].commit_status =
              (IF exe'.op = "set_success" THEN "True" ELSE "False")
       /\ \A k \in DOMAIN before.outcomes : before.outcomes[k].seq_no < exe'.seq_no

\* a commit_status that is set stays as it is
CommitStatusKept(before, after) ==
    \A i \in DOMAIN before.seq :
        before.seq[i].commit_status # "None" => after.seq[i] = before.seq[i]

\* for each index at most one call, in ascending order of the index, and
\* the commit_status of the index is the outcome of the call
OutcomesOrdered(ex) ==
    /\ \A j, k \in DOMAIN ex.outcomes :
           j < k => ex.outcomes[j].seq_no < ex.outcomes[k].seq_no
    /\ \A k \in DOMAIN ex.outcomes :
           /\ ex.outcomes[k].seq_no < Len(ex.seq)
           /\ ex.seq[ex.outcomes[k].seq_no + 1].commit_status =
                  (IF ex.outcomes[k].is_success THEN "True" ELSE "False")
    /\ \A i \in DOMAIN ex.seq :
           ex.seq[i].commit_status # "None"
               => \E k \in DOMAIN ex.outcomes : ex.outcomes[k].seq_no = i - 1

\* C18: the executor of offchainapi calls set_outcome (and with it the
\* processor's process_command) at most once for each index of the command
\* sequence, with the outcome it records in commit_status when the command
\* leaves pending, and in ascending order of the index; a command whose
\* commit_status is set is not handed to the processor again and keeps its
\* commit_status.
C18_NotifiedOnceInOrder ==
    [][/\ NotifiedOnce(exe.new, exe'.new)
       /\ CommitStatusKept(exe.new, exe'.new)
       /\ OutcomesOrdered(exe'.new)]_vars

\* C18 witness: the processor has been handed a success and then, for a
\* later index, a failure
C18_Witness ==
    /\ \E j, k \in DOMAIN exe.new.outcomes :
           /\ j < k
           /\ exe.new.outcomes[j].is_success
           /\ ~ exe.new.outcomes[k].is_success
           /\ exe.new.outcomes[j].seq_no < exe.new.outcomes[k].seq_no
    /\ exe.op = "set_fail" /\ exe.raised_new = ""

(***************************************************************************)
(* Properties of the payment processor, checked under SpecProc.            *)
(***************************************************************************)
\* the step removed the obligation uid from the log
Released(uid) ==
    /\ uid \in DOMAIN pay.pending_commands
    /\ uid \notin DOMAIN pay'.pending_commands

\* the step queued the request that follows the command of uid, and no other
Queued(uid) ==
    pay'.requests = Append(pay.requests, [to |-> uid[1], command |-> PaymentCommand(uid)])

\* the step released uid because no request is to follow: the payment has
\* not changed, or the command is not the peer's
NoneNeeded(uid) ==
    /\ pay'.requests = pay.requests
    /\ \/ pay'.op = "business" /\ pay'.answer = "unchanged"
       \/ pay'.op = "start" /\ ~ PeerOriginated(pay.pending_commands[uid])

\* the task of the step ended in an error or was cancelled before it had
\* sequenced a request or found that none is needed
EndedEarly ==
    /\ pay'.op \in {"start", "business", "cancel"}
    /\ pay'.reached \in {"error", "cancelled"}
    /\ pay.tasks[pay'.uid].pc \in {"start", "business"}

\* C19: an obligation stays in the log until the task of its command has
\* sequenced the request that follows or has found that none is needed; the
\* request is queued and the obligation released in the same step, both or
\* neither; a task that ends in an error or is cancelled before that, and a
\* restart, leave the log and the queued requests as they were.
C19_ObligationReleasedWithRequest ==
    [][/\ \A uid \in Uids :
              Released(uid)
                  => /\ pay'.uid = uid
                     /\ \/ pay'.op = "business" /\ pay'.answer = "changed" /\ Queued(uid)
                        \/ NoneNeeded(uid)
       /\ pay'.requests # pay.requests
              => /\ Queued(pay'.uid)
                 /\ Released(pay'.uid)
                 /\ pay'.op = "business"
       /\ (EndedEarly \/ pay'.op = "restart")
              => /\ pay'.pending_commands = pay.pending_commands
                 /\ pay'.requests = pay.requests
      ]_vars

\* C19 witness: after a restart the task of an obligation that survived it
\* has sequenced the request that follows and the obligation is released,
\* while the obligation of another channel, whose task was cancelled, is
\* still in the log
C19_Witness ==
    /\ pay.op = "business" /\ pay.answer = "changed"
    /\ pay.restarts > 0
    /\ pay.uid \notin DOMAIN pay.pending_commands
    /\ \E k \in DOMAIN pay.requests : pay.requests[k].command = PaymentCommand(pay.uid)
    /\ \E uid \in DOMAIN pay.pending_commands : uid \notin DOMAIN pay.tasks

\* C20: process_command records the obligation (peer, seq) for the command
\* if and only if the status is success; with failure the obligation log,
\* the object store, the reference-id index and the queued requests stay as
\* they were and the one new task is the failure logging task.
C20_ObligationIffSuccess ==
    [][pay'.op = "process_command"
          => LET uid == pay'.uid
                 command == pay'.tasks[uid].command
             IN  /\ uid \notin DOMAIN pay.pending_commands
                 /\ (uid \in DOMAIN pay'.pending_commands) <=> (pay'.answer = "success")
                 /\ pay'.answer = "success"
                        => /\ pay'.pending_commands =
                                  StorePut(pay.pending_commands, uid, command)
                           /\ pay'.tasks = StorePut(pay.tasks, uid, Task("success", command, "start"))
                           /\ new_object_versions(command) \subseteq pay'.object_store
                 /\ pay'.answer # "success"
                        => /\ pay'.pending_commands = pay.pending_commands
                           /\ pay'.object_store = pay.object_store
                           /\ pay'.reference_id_index = pay.reference_id_index
                           /\ pay'.requests = pay.requests
                           /\ pay'.tasks = StorePut(pay.tasks, uid, Task("failure", command, "scheduled"))
      ]_vars

\* C20 witness: process_command was called with failure while the
\* obligation of an earlier command is in the log, with objects in the
\* store and payments in the index; it recorded no obligation
C20_Witness ==
    /\ pay.op = "process_command" /\ pay.answer = "failure"
    /\ pay.uid \notin DOMAIN pay.pending_commands
    /\ pay.tasks[pay.uid].kind = "failure"
    /\ DOMAIN pay.pending_commands # {}
    /\ pay.object_store # {}
    /\ DOMAIN pay.reference_id_index # {}

\* the step is the return of send_request with a NetworkException
NetworkError == pay'.op = "sent" /\ pay'.answer = "NetworkException"

\* a cancelled task ends cancelled (CancelledError is raised again), with
\* the log and the queued requests as they were
CancelPropagates ==
    pay'.op = "cancel"
        => /\ pay'.reached = "cancelled"
           /\ pay'.pending_commands = pay.pending_commands
           /\ pay'.requests = pay.requests

\* C21 as stated: when send_request fails with a NetworkException the
\* obligation of the command is still in the log when
\* process_command_success_async returns, and a CancelledError propagates.
C21_NetworkErrorKeepsObligation ==
    [][/\ NetworkError => pay'.uid \in DOMAIN pay'.pending_commands
       /\ CancelPropagates]_vars

\* C21 amended: when send_request fails with a NetworkException the task
\* logs it and returns; the request that follows the command is queued on
\* the channel and the obligation was released with it, before the send, so
\* the obligation is not in the log; the step changes neither the log nor
\* the queue.  A CancelledError propagates.
C21_NetworkErrorAfterRelease ==
    [][/\ NetworkError
              => /\ pay'.reached = "error"
                 /\ pay'.uid \notin DOMAIN pay'.pending_commands
                 /\ \E k \in DOMAIN pay'.requests :
                        pay'.requests[k] = [to |-> pay'.uid[1],
                                            command |-> PaymentCommand(pay'.uid)]
                 /\ pay'.pending_commands = pay.pending_commands
                 /\ pay'.requests = pay.requests
       /\ CancelPropagates]_vars

\* C21 witness: send_request failed with a NetworkException for the request
\* that follows a command of the peer, while another task was cancelled
\* and its obligation is still in the log
C21_Witness ==
    /\ pay.op = "sent" /\ pay.answer = "NetworkException"
    /\ pay.reached = "error"
    /\ pay.uid \notin DOMAIN pay.pending_commands
    /\ \E uid \in DOMAIN pay.pending_commands : uid \notin DOMAIN pay.tasks

\* a restart keeps the log and creates one task for each obligation in it,
\* for the stored command, and no other task
RestartRetriesAll ==
    pay'.op = "restart"
        => /\ pay'.pending_commands = pay.pending_commands
           /\ DOMAIN pay'.tasks = DOMAIN pay.pending_commands
           /\ \A uid \in DOMAIN pay'.tasks :
                  pay'.tasks[uid] = Task("success", pay.pending_commands[uid], "start")

StartedOwn ==
    /\ pay'.op = "start"
    /\ pay.net
    /\ pay'.uid \in DOMAIN pay.pending_commands
    /\ ~ PeerOriginated(pay.tasks[pay'.uid].command)

\* C23: process_command_success_async sequences a request only for a
\* command whose origin is the peer; for a command of the local VASP it
\* does not await payment_process_async, queues nothing and ends having
\* released the obligation, every other obligation left as it was.
C23_FollowUpOnlyForPeerCommands ==
    [][/\ StartedOwn
              => /\ pay'.reached = "done"
                 /\ pay'.requests = pay.requests
                 /\ pay'.pending_commands = StoreDel(pay.pending_commands, {pay'.uid})
                 /\ pay'.object_store = pay.object_store
       /\ pay'.requests # pay.requests
              => PeerOriginated(pay.tasks[pay'.uid].command)
       /\ \A uid \in DOMAIN pay'.tasks :
              pay'.tasks[uid].pc \in {"business", "send"}
                  => PeerOriginated(pay'.tasks[uid].command)
      ]_vars

\* C23 witness: the task of a successful command of the local VASP has run
\* and ended, its obligation is released and no request follows it, while a
\* request that follows a command of the peer is queued
C23_Witness ==
    /\ pay.op = "start" /\ pay.reached = "done"
    /\ pay.uid \notin DOMAIN pay.pending_commands
    /\ pay.requests # << >>
    /\ \A k \in DOMAIN pay.requests : pay.requests[k].command # PaymentCommand(pay.uid)

(***************************************************************************)
(* Properties of the payment status logic, checked under SpecPay.          *)
(***************************************************************************)
\* the last step was payment_process_async at the VASP of pay.actor
Processing == pay.op = "payment_process_async"

\* C24: a payment returned by payment_process_async has the status of the
\* other side as in its input, and its local status is one can_change_status
\* allows from the input's status pair for the local role; when the status
\* computed from the business answers is not such a status the call raises
\* PaymentLogicError and returns no payment.
C24_ProcessedStatusChecked ==
    Processing
        => LET is_sender == pay.actor = "sender"
               computed == CurrentStatus(pay.previous, ~ is_sender, pay.answers)
               allowed == is_valid_status_transition(
                              pay.previous.sender, pay.previous.receiver,
                              IF is_sender THEN computed ELSE pay.previous.sender,
                              IF is_sender THEN pay.previous.receiver ELSE computed,
                              is_sender)
           IN  /\ (pay.outcome = "PaymentLogicError") <=> ~ allowed
               /\ pay.outcome = "PaymentLogicError"
                      => pay.payment = pay.previous /\ pay.proposed = pay.previous
               /\ pay.outcome # "PaymentLogicError"
                      => /\ pay.proposed[OtherRole(pay.actor)] =
                                pay.previous[OtherRole(pay.actor)]
                         /\ pay.proposed[pay.actor] = computed
                         /\ can_change_status(pay.previous, pay.proposed[pay.actor], is_sender)

\* C24 witness: the business of the receiver VASP asked for
\* needs_recipient_signature, which a receiver may not enter, and
\* payment_process_async raised PaymentLogicError
C24_Witness ==
    /\ Processing
    /\ pay.actor = "receiver"
    /\ pay.answers.next_kyc = "needs_recipient_signature"
    /\ pay.answers.force_abort = 0
    /\ pay.outcome = "PaymentLogicError"
    /\ pay.previous.receiver = "none"

\* the payment given to the last payment_process_async had the peer's side
\* in abort, and can_change_status allows the local side to enter abort
PeerAbortGiven ==
    /\ Processing
    /\ pay.previous[OtherRole(pay.actor)] = "abort"
    /\ can_change_status(pay.previous, "abort", pay.actor = "sender")

\* C25: when payment_process_async is given a payment whose peer side is
\* abort and can_change_status allows abort for the local side, the call
\* returns a payment whose local side is abort, whatever the business
\* answers to ready_for_settlement and has_settled.
C25_PeerAbortPropagates ==
    PeerAbortGiven
        => /\ pay.outcome # "PaymentLogicError"
           /\ pay.proposed[pay.actor] = "abort"

\* C25 witness: the receiver VASP processed a payment the sender has
\* aborted, its business answered ready_for_settlement, and the payment
\* returned has the receiver ready_for_settlement
C25_Witness ==
    /\ PeerAbortGiven
    /\ pay.actor = "receiver"
    /\ pay.previous.receiver = "none"
    /\ pay.answers.ready
    /\ pay.answers.force_abort = 0
    /\ pay.proposed.receiver = "ready_for_settlement"

\* the last step was the check of a peer update whose statuses are not a
\* valid transition by the peer from the previous version's status pair
InvalidUpdateChecked ==
    /\ pay.op = "check_new_update"
    /\ ~ is_valid_status_transition(pay.previous.sender, pay.previous.receiver,
                                    pay.proposed.sender, pay.proposed.receiver,
                                    pay.actor = "sender")

\* C26: check_new_update raises PaymentLogicError for every peer update
\* whose new status is not a valid transition from the previous version's
\* status pair, a status of lower height than the peer's previous status
\* among them: the update is sequenced as fail and the payment stays as it
\* was.
C26_InvalidTransitionRejected ==
    InvalidUpdateChecked => (pay.outcome = "fail" /\ pay.payment = pay.previous)

\* C26 witness: the sender VASP checked an update of the receiver from
\* ready_for_settlement down to needs_kyc_data, and the check returned
C26_Witness ==
    /\ InvalidUpdateChecked
    /\ pay.actor = "receiver"
    /\ pay.previous = PaymentObject("none", "ready_for_settlement")
    /\ pay.proposed = PaymentObject("none", "needs_kyc_data")
    /\ pay.outcome = "success"

\* the last operation produced an accepted payment version in which the
\* side sd has newly entered the status
Entered(sd, status) ==
    /\ pay.outcome = "success"
    /\ pay.payment[sd] = status
    /\ pay.previous[sd] # status

LocalRole == OtherRole(pay.actor)

\* C28: a command of the peer never sets or alters the local VASP's side
\* of a payment.  A fresh payment of the peer whose local-side status is
\* not none and an update of the peer whose local side differs from the
\* previous version are rejected, so the local side of every accepted
\* version is as it was; a command of the local VASP is not checked at
\* that VASP: whenever payment_process_async returns a payment, the command
\* carrying it succeeds.
C28_PeerLeavesLocalSide ==
    /\ (pay.op = "check_new_payment" /\ pay.proposed[LocalRole] # "none")
           => pay.outcome = "fail"
    /\ (pay.op = "check_new_update" /\ pay.proposed[LocalRole] # pay.previous[LocalRole])
           => pay.outcome = "fail"
    /\ pay.outcome = "fail" => pay.payment = pay.previous
    /\ pay.outcome = "success" => pay.payment[LocalRole] = pay.previous[LocalRole]
    /\ (Processing /\ pay.outcome # "PaymentLogicError") => pay.outcome = "success"

\* C28 witness: the receiver VASP rejected an update of the sender that
\* set the receiver's status, after the receiver had changed its own
\* status by a command of its own
C28_Witness ==
    /\ pay.op = "check_new_update"
    /\ pay.actor = "sender"
    /\ pay.previous.receiver = "needs_kyc_data"
    /\ pay.proposed.receiver = "ready_for_settlement"
    /\ pay.proposed.sender = pay.previous.sender
    /\ pay.outcome = "fail"

(***************************************************************************)
(* Properties of the reference_id, checked under SpecRef.                  *)
(***************************************************************************)
\* s begins with the string prefix
StartsWith(s, prefix) ==
    Len(s) >= Len(prefix) /\ SubSeq(s, 1, Len(prefix)) = prefix

\* ref_id is the address of the VASP origin, then "_", then any suffix
OriginUnderscoreSuffix(ref_id, origin) ==
    StartsWith(ref_id, as_str(origin) \o <<"_">>)

VersionOf(command) == CHOOSE v \in new_object_versions(command) : TRUE

\* the successful commands whose version no successful command depends on:
\* the last command of each payment's chain
LastOfChain(p) == {c \in Succeeded(p) : VersionOf(c) \notin Consumed(p)}

\* C30: after any sequence of successful payment commands the reference-id
\* index maps the reference_id of each payment to the version created by
\* the last successful command of that payment's chain, the one no other
\* successful command depends on.
C30_IndexHoldsLatest ==
    /\ \A c \in LastOfChain(pay) :
           /\ pay.reference_ids[c] \in DOMAIN pay.reference_id_index
           /\ pay.reference_id_index[pay.reference_ids[c]] = VersionOf(c)
    /\ \A ref_id \in DOMAIN pay.reference_id_index :
           \E c \in LastOfChain(pay) :
               pay.reference_ids[c] = ref_id /\ pay.reference_id_index[ref_id] = VersionOf(c)

\* C30 witness: two new payments of the same reference_id have succeeded,
\* the second is the last command of its chain, and the index holds the
\* version of the first
C30_Witness ==
    /\ pay.reference_ids[1] = pay.reference_ids[3]
    /\ 1 \in Succeeded(pay)
    /\ 3 \in LastOfChain(pay)
    /\ pay.reference_id_index[pay.reference_ids[3]] = VersionOf(1)

\* the same property for payments of distinct reference_ids
IndexHoldsLatestOfDistinct ==
    pay.reference_ids = reference_id => C30_IndexHoldsLatest

\* an update has replaced the entry of its payment in the index
IndexUpdated ==
    /\ pay.reference_ids = reference_id
    /\ 2 \in Succeeded(pay)
    /\ 3 \in Succeeded(pay)
    /\ pay.reference_id_index[1] = VersionOf(2)

(***************************************************************************)
(* Further properties of the channel, checked under Spec.                  *)
(***************************************************************************)
\* the indices of the requests of st that have no response
Unanswered(st) == {i \in DOMAIN st.my_requests : ~ has_response(st.my_requests[i])}

\* the last step was a call of retransmit() at ev.e
Retransmitted == ev.op = "retransmit"

\* what a call of retransmit() at e does in this step: it sends one message,
\* the request of lowest seq without a response, when there is one, and
\* nothing otherwise, and leaves the channel of e as it was
RetransmitsEarliest(e) ==
    /\ would_retransmit(chan[e]) <=> Unanswered(chan[e]) # {}
    /\ IF Unanswered(chan[e]) = {}
       THEN ev'.out = << >> /\ net' = net
       ELSE \E i \in Unanswered(chan[e]) :
               /\ \A k \in Unanswered(chan[e]) :
                      chan[e].my_requests[i].seq <= chan[e].my_requests[k].seq
               /\ ev'.out = <<chan[e].my_requests[i]>>
               /\ net' = net \cup {Msg("request", Other(e), chan[e].my_requests[i])}
    /\ chan' = chan
    /\ disk' = disk

\* C31: would_retransmit() is true exactly when some request of my_requests
\* has no response; retransmit() sends exactly one message, the request
\* with the lowest seq that has no response, when there is one and nothing
\* otherwise; neither changes my_requests, the counters or the executor.
C31_RetransmitEarliest ==
    [][ev'.op = "retransmit" => RetransmitsEarliest(ev'.e)]_vars

\* C31 witness: retransmit() was called with two requests lacking a
\* response and sent the one of seq 0
C31_Witness ==
    /\ Retransmitted
    /\ Cardinality(Unanswered(chan[ev.e])) = 2
    /\ Len(ev.out) = 1
    /\ ev.out[1].seq = 0

\* the command c has been confirmed with set_success in the executor ex
ConfirmedSuccess(ex, c) ==
    \E k \in DOMAIN ex.seq : ex.seq[k].command = c /\ ex.seq[k].commit_status = "True"

\* the command c is in the sequence of ex without an outcome
Unconfirmed(ex, c) ==
    \E k \in DOMAIN ex.seq : ex.seq[k].command = c /\ ex.seq[k].commit_status = "None"

\* C32: a version is actually_live in the store of an executor only if the
\* command that creates it has been confirmed with set_success; the version
\* of a command that is sequenced and not yet confirmed is in the store
\* potentially_live and not actually_live, also when it is an update of a
\* dependency that is actually_live.
C32_ActuallyLiveOnlyConfirmed ==
    \A e \in Endpoints : \A c \in Commands : \A v \in new_object_versions(c) :
        LET ex == Executor(e)
        IN  /\ (v \in DOMAIN ex.object_store /\ ex.object_store[v].actually_live)
                   => ConfirmedSuccess(ex, c)
            /\ (Unconfirmed(ex, c) /\ v \in DOMAIN ex.object_store)
                   => (ex.object_store[v].potentially_live
                       /\ ~ ex.object_store[v].actually_live)

\* C32 witness: the server has sequenced its update of a version that is
\* actually_live, the update has no outcome yet, and the version the
\* update creates is actually_live in the server's store
C32_Witness ==
    \E e \in Endpoints : \E c \in Commands : \E v \in new_object_versions(c) :
        LET ex == Executor(e)
        IN  /\ Unconfirmed(ex, c)
            /\ \A d \in get_dependencies(c) : \E b \in Commands :
                   d \in new_object_versions(b) /\ ConfirmedSuccess(ex, b)
            /\ get_dependencies(c) # {}
            /\ v \in DOMAIN ex.object_store
            /\ ex.object_store[v].actually_live

\* the request the client is handed is sequenced: it is the in-order request
\* and it is not answered 'wait'
ClientSequences ==
    /\ ClientInOrder
    /\ ~ (ev'.arg.command_seq > next_final_sequence(chan[ev'.e]))

\* C33: whenever a client processes the in-order request of the server
\* (seq = other_next_seq and no 'wait' answer) the command_seq of the request
\* equals the client's next_seq(): the assertion of handle_request never
\* fails, no request of the server arrives with a command_seq below it.
C33_ServerCommandSeqIsNext ==
    [][ClientSequences
          => (/\ ev'.arg.command_seq = next_final_sequence(chan[ev'.e])
              /\ ev'.err # ErrCommandSeq)]_vars

\* C33 witness: the client has sequenced the server's request for the slot
\* 1 or later, after a command was confirmed in its executor
C33_Witness ==
    /\ ev.op = "handle_request" /\ IsClient(ev.e) /\ ev.err = ""
    /\ ev.arg.command_seq >= 1
    /\ ev.out # << >> /\ ev.out[1].status = "success"
    /\ ev.out[1].command_seq = ev.arg.command_seq
    /\ next_seq(Executor(ev.e)) = ev.arg.command_seq + 1

\* the requests of my_requests that have a response form a prefix of it
RespondedPrefix(st) ==
    \A i, j \in DOMAIN st.my_requests :
        (i < j /\ has_response(st.my_requests[j])) => has_response(st.my_requests[i])

\* the response answers the earliest request of st that has no response
AnswersEarliest(st, response) ==
    /\ response.seq + 1 \in DOMAIN st.my_requests
    /\ ~ has_response(st.my_requests[response.seq + 1])
    /\ \A i \in DOMAIN st.my_requests : i < response.seq + 1 => has_response(st.my_requests[i])

\* the response is out of order for st, or it is a protocol error
OutOfOrder(st, response) ==
    \/ ~ (response.seq < Len(st.my_requests))
    \/ (response.seq > 0 /\ ~ has_response(st.my_requests[response.seq]))
    \/ (response.status = "failure" /\ response.protocol_error)

\* C34: handle_response changes my_requests or the executor only for a
\* success or command failure response to the earliest request without a
\* response; a response whose seq is outside my_requests, whose predecessor
\* has no response, or that is a protocol error changes neither; the
\* requests with a response always form a prefix of my_requests.
C34_ResponsesInRequestOrder ==
    /\ [](\A e \in Endpoints : RespondedPrefix(chan[e]))
    /\ [][ev'.op = "handle_response"
            => LET e == ev'.e
               IN  /\ (chan'[e].my_requests # chan[e].my_requests
                       \/ chan'[e].executor # chan[e].executor)
                          => (AnswersEarliest(chan[e], ev'.arg) /\ IsOutcome(ev'.arg))
                   /\ OutOfOrder(chan[e], ev'.arg)
                          => (/\ chan'[e].my_requests = chan[e].my_requests
                              /\ chan'[e].executor = chan[e].executor)]_vars

\* C34 witness: an endpoint was handed the success response to its second
\* request while the first had none, and the second still has none
C34_Witness ==
    /\ ev.op = "handle_response" /\ ev.err = ""
    /\ ev.arg.seq = 1 /\ ev.arg.status = "success"
    /\ Len(chan[ev.e].my_requests) >= 2
    /\ ~ has_response(chan[ev.e].my_requests[1])
    /\ ~ has_response(chan[ev.e].my_requests[2])

(***************************************************************************)
(* The channel when either VASP may propose any command: the server can    *)
(* then sequence, speculatively, two commands of its own that depend on    *)
(* the same version, and the two VASPs can propose such commands           *)
(* concurrently.  Messages stay in flight, so they are delivered in any    *)
(* order and any number of times; endpoints crash as under Spec.           *)
(***************************************************************************)
\* the VASP e proposes the command c, which no VASP has proposed yet
SequenceLocalAny(e, c) ==
    /\ c \notin Proposed("A") \cup Proposed("B")
    /\ Len(chan["A"].my_requests) + Len(chan["B"].my_requests) < MaxProposals
    /\ LET r == sequence_command_local(e, chan[e], disk[e], c)
       IN  /\ chan' = [chan EXCEPT ![e] = r.st]
           /\ disk' = [disk EXCEPT ![e] = r.disk]
           /\ net' = net \cup Sent("request", Other(e), r.out)
           /\ failed' = [failed EXCEPT ![e] = @ \cup Unexpected(r.err)]
           /\ ev' = Event("sequence_command_local", e, c, r.out, r.err)
           /\ last' = LastStep("sequence_command_local", e)
    /\ UNCHANGED <<crashes, exe, pay, role, lost>>

NextAny ==
    \/ \E e \in Endpoints, c \in Commands : SequenceLocalAny(e, c)
    \/ \E e \in Endpoints, m \in net : DeliverRequest(e, m)
    \/ \E e \in Endpoints, m \in net : DeliverResponse(e, m)
    \/ \E e \in Endpoints : Crash(e)

SpecAny == Init /\ [][NextAny]_vars

\* the outcome recorded for the index i (from 1) of the sequence of ex
Outcome(ex, i) == ex.seq[i].commit_status

\* C35: for every index below last_confirmed on both endpoints the two
\* executors record the same outcome (success or fail) for the command at
\* that index: the outcome the responder decides is the one the proposer
\* applies, also when the proposer's own sequencing of the command
\* disagrees.
C35_OutcomesAgree ==
    \A i \in 1 .. Min(Confirmed("A"), Confirmed("B")) :
        /\ Outcome(Executor("A"), i) \in {"True", "False"}
        /\ Outcome(Executor("A"), i) = Outcome(Executor("B"), i)

\* C35 witness: the server sequenced two commands of its own that depend on
\* the same version, its sequencing of both succeeded, and both endpoints
\* record success for the first and fail for the second
C35_Witness ==
    \E s \in Endpoints : \E i, j \in 1 .. Min(Confirmed("A"), Confirmed("B")) :
        LET ci == Executor(s).seq[i].command
            cj == Executor(s).seq[j].command
        IN  /\ IsServer(s) /\ i < j
            /\ ci \in Proposed(s) /\ cj \in Proposed(s)
            /\ get_dependencies(ci) \cap get_dependencies(cj) # {}
            /\ \A e \in Endpoints :
                   Outcome(Executor(e), i) = "True" /\ Outcome(Executor(e), j) = "False"

\* the indexes of the sequence of ex whose command depends on the version v
Consumers(ex, v) == {i \in DOMAIN ex.seq : v \in get_dependencies(ex.seq[i].command)}

\* the indexes of the sequence of ex whose command creates v and succeeded
Creators(ex, v) ==
    {k \in DOMAIN ex.seq : /\ v \in new_object_versions(ex.seq[k].command)
                           /\ Outcome(ex, k) = "True"}

\* C36: in the sequence of each executor every version is a dependency of
\* at most one command whose outcome is success, also when several
\* commands on the same version were sequenced speculatively by one VASP or
\* proposed concurrently by the two; of the commands sequenced on a version
\* after its creation the first succeeds and every other one that has an
\* outcome has failed.
C36_NoDoubleConsumption ==
    \A e \in Endpoints : \A v \in Versions :
        LET ex == Executor(e)
        IN  /\ \A i, j \in Consumers(ex, v) :
                   (Outcome(ex, i) = "True" /\ Outcome(ex, j) = "True") => i = j
            /\ \A k \in Creators(ex, v) : \A i, j \in Consumers(ex, v) :
                   (k < i /\ i < j /\ Outcome(ex, j) # "None")
                       => (Outcome(ex, i) # "None" /\ Outcome(ex, j) = "False")
            /\ \A k \in Creators(ex, v) : \A i \in Consumers(ex, v) :
                   (/\ k < i /\ Outcome(ex, i) # "None"
                    /\ \A j \in Consumers(ex, v) : j >= i)
                       => Outcome(ex, i) = "True"

\* C36 witness: the server proposed two commands on the same version and
\* sequenced both speculatively; both executors hold the two commands with an
\* outcome, the first success and the second fail
C36_Witness ==
    \E v \in Versions : \E p \in Endpoints :
        /\ \A e \in Endpoints :
               \E i, j \in Consumers(Executor(e), v) :
                   /\ i < j
                   /\ Executor(e).seq[i].command \in Proposed(p)
                   /\ Executor(e).seq[j].command \in Proposed(p)
                   /\ Outcome(Executor(e), i) = "True"
                   /\ Outcome(Executor(e), j) = "False"
        /\ IsServer(p)
        /\ Confirmed("A") = 3 /\ Confirmed("B") = 3

\* the commands of the requests of st that have no response, in request order
UnansweredCommands(st) ==
    LET open == SelectSeq(st.my_requests, LAMBDA r : ~ has_response(r))
    IN  [i \in DOMAIN open |-> open[i].command]

\* the commands of the entries of ex at last_confirmed and above, in order
UnconfirmedCommands(ex) ==
    [i \in 1 .. (next_seq(ex) - ex.last_confirmed) |-> ex.seq[ex.last_confirmed + i].command]

\* C37: between two handler calls the executor of a client has no
\* unconfirmed entry (next_seq() = last_confirmed); the executor of a server
\* has as many as the server has own requests without a response, and they
\* are the commands of those requests in request order; a command of the
\* peer is confirmed in the step in which it is sequenced, so it is never
\* in the sequence without an outcome.
C37_UnconfirmedAreOwnRequests ==
    \A e \in Endpoints :
        LET st == chan[e]
            ex == Executor(e)
        IN  /\ ex.last_confirmed <= next_seq(ex)
            /\ IsClient(e) => next_seq(ex) = ex.last_confirmed
            /\ IsServer(e) =>
                   /\ next_seq(ex) - ex.last_confirmed = pending_responses(st)
                   /\ UnconfirmedCommands(ex) = UnansweredCommands(st)
            /\ \A i \in DOMAIN ex.seq :
                   ex.seq[i].command \notin Proposed(e) => Outcome(ex, i) # "None"

\* C37 witness: a server with two requests without a response, whose
\* executor holds a confirmed command of the client and its own two commands
\* unconfirmed, and a client that has sequenced a command of the server
C37_Witness ==
    \E s \in Endpoints :
        /\ IsServer(s)
        /\ pending_responses(chan[s]) = 2
        /\ Executor(s).last_confirmed >= 1
        /\ next_seq(Executor(s)) = Executor(s).last_confirmed + 2
        /\ \E i \in DOMAIN Executor(s).seq : Executor(s).seq[i].command \notin Proposed(s)
        /\ \E i \in DOMAIN Executor(Other(s)).seq :
               Executor(Other(s)).seq[i].command \in Proposed(s)

\* the server e is handed the response to its last request without one and
\* applies it
LastResponseApplied(e) ==
    /\ ev'.op = "handle_response" /\ ev'.e = e
    /\ IsServer(e)
    /\ pending_responses(chan[e]) = 1
    /\ pending_responses(chan'[e]) = 0

\* the number of entries of the sequence of ex that hold the command c
TimesSequenced(ex, c) == Cardinality({i \in DOMAIN ex.seq : ex.seq[i].command = c})

\* other_next_seq once the first n deferred requests are handled in order:
\* a request is stored when its seq is the next one
RECURSIVE NextSeqAfter(_, _, _)
NextSeqAfter(st, deferred, n) ==
    IF n = 0 THEN st.other_next_seq
    ELSE LET m == NextSeqAfter(st, deferred, n - 1)
         IN  IF deferred[n].seq = m THEN m + 1 ELSE m

\* when the i-th deferred request is handled every request of lower seq
\* has been stored
InTurn(st, deferred, i) == deferred[i].seq <= NextSeqAfter(st, deferred, i - 1)

\* every request deferred by e is answered by the step, in arrival order; a
\* request deferred twice has its command in the sequence once and, once it
\* is sequenced, is answered again with the stored response (before that it
\* is answered 'missing' when an earlier request has not been handled yet)
DeferredHandled(e) ==
    LET deferred == chan[e].pending_requests
    IN  /\ chan'[e].pending_requests = << >>
        /\ ev'.err = ""
        /\ Len(ev'.out) = Len(deferred)
        /\ \A i \in DOMAIN deferred : ev'.out[i].seq = deferred[i].seq
        /\ \A i \in DOMAIN deferred :
               IF InTurn(chan[e], deferred, i)
               THEN /\ IsOutcome(ev'.out[i]) \/ ev'.out[i].code = "conflict"
                    /\ IsOutcome(ev'.out[i])
                           => ev'.out[i] = chan'[e].other_requests[deferred[i].seq + 1].response
               ELSE ev'.out[i] = make_protocol_error(deferred[i], "missing")
        /\ \A i, j \in DOMAIN deferred :
               (i < j /\ deferred[i] = deferred[j])
                   => /\ IsOutcome(ev'.out[i]) => ev'.out[j] = ev'.out[i]
                      /\ TimesSequenced(chan'[e].executor, deferred[i].command) <= 1

\* C38: pending_requests is non-empty only on a server that has an own
\* request without a response (never on a client); when the response to
\* the server's last outstanding request is applied, every deferred request
\* is handled, in arrival order, before handle_response returns; a request
\* deferred twice is sequenced once and answered the second time with the
\* stored response.
C38_DeferredRequestsHandled ==
    /\ [](\A e \in Endpoints :
              chan[e].pending_requests # << >>
                  => (IsServer(e) /\ pending_responses(chan[e]) > 0))
    /\ [][\A e \in Endpoints : LastResponseApplied(e) => DeferredHandled(e)]_vars

\* C38 witness: a server applied the response to its last outstanding
\* request and answered the request it had deferred twice: two equal
\* success responses, the stored one
C38_Witness ==
    /\ ev.op = "handle_response" /\ IsServer(ev.e) /\ ev.err = ""
    /\ pending_responses(chan[ev.e]) = 0
    /\ chan[ev.e].pending_requests = << >>
    /\ Len(ev.out) = 2
    /\ ev.out[1] = ev.out[2]
    /\ ev.out[1].status = "success"
    /\ ev.out[1] = chan[ev.e].other_requests[ev.out[1].seq + 1].response

\* the endpoint e is handed a success response and applies it: the request
\* it answers gets the response
SuccessApplied(e) ==
    /\ ev'.op = "handle_response" /\ ev'.e = e
    /\ ev'.arg.status = "success"
    /\ AnswersEarliest(chan[e], ev'.arg)
    /\ has_response(chan'[e].my_requests[ev'.arg.seq + 1])

\* the proposer's own sequencing of the command of its request: the client
\* sequences it when the response arrives, the server did when it sent it
OwnSequencing(e, command) ==
    IF ev'.arg.command_seq = next_final_sequence(chan[e])
    THEN sequence_next_command(chan[e].executor, command, FALSE, TRUE)
    ELSE [ex |-> chan[e].executor, raised |-> FALSE]

\* set_success(n) finds the command n and every version it looks up
ObjectsPresent(ex, n, command) ==
    /\ n = ex.last_confirmed
    /\ n < Len(ex.seq)
    /\ ex.seq[n + 1].command = command
    /\ get_dependencies(command) \subseteq DOMAIN ex.object_store
    /\ new_object_versions(command) \subseteq DOMAIN ex.object_store

\* C39: with two correct endpoints no call of set_success fails for lack of
\* an object: whenever a success response is applied with set_success(n),
\* the dependencies and the created versions of the command n are in the
\* proposer's store, and the proposer's own sequencing of the command (at
\* send time on the server, at response time on the client) has succeeded.
C39_SuccessFindsObjects ==
    /\ [](\A e \in Endpoints : ErrKey \notin failed[e] /\ ErrIndex \notin failed[e])
    /\ [][\A e \in Endpoints :
              SuccessApplied(e)
                  => LET command == chan[e].my_requests[ev'.arg.seq + 1].command
                         own == OwnSequencing(e, command)
                     IN  /\ ~ own.raised
                         /\ ObjectsPresent(own.ex, ev'.arg.command_seq, command)
                         /\ ev'.err = ""]_vars

\* C39 witness: endpoints have applied success responses to commands with a
\* dependency, one sequenced by a client when the response arrived and one
\* that a server had sequenced when it sent it
C39_Witness ==
    /\ ev.op = "handle_response" /\ ev.arg.status = "success" /\ ev.err = ""
    /\ has_response(chan[ev.e].my_requests[ev.arg.seq + 1])
    /\ get_dependencies(chan[ev.e].my_requests[ev.arg.seq + 1].command) # {}
    /\ Outcome(Executor(ev.e), ev.arg.command_seq + 1) = "True"
    /\ \E i \in DOMAIN Executor(Other(ev.e)).seq :
           /\ Executor(Other(ev.e)).seq[i].command \in Proposed(Other(ev.e))
           /\ Outcome(Executor(Other(ev.e)), i) = "True"

(***************************************************************************)
(* The payment processor when retry_process_commands is called while the   *)
(* tasks that process_command scheduled are still running: it creates a    *)
(* second process_command_success_async for every obligation of the log,   *)
(* and the event loop interleaves the runs at their awaits.  A run that    *)
(* process_command scheduled is named by its (peer, seq), a run that the   *)
(* n-th call of retry_process_commands scheduled by (peer, seq, n);        *)
(* pay.restarts counts the calls.                                          *)
(***************************************************************************)
Runs == Uids \cup {<<uid[1], uid[2], n>> : uid \in Uids, n \in 1 .. MaxRestarts}

\* retry_process_commands is called: a new task for each obligation
ProcRetry ==
    /\ pay.restarts < MaxRestarts
    /\ pay.pending_commands # << >>
    /\ LET n == pay.restarts + 1
           new_tasks == retry_process_commands(pay)
           reruns == {<<uid[1], uid[2], n>> : uid \in DOMAIN new_tasks}
       IN  ProcStep([pay EXCEPT
                        !.restarts = n,
                        !.tasks = [run \in (DOMAIN pay.tasks) \cup reruns |->
                                      IF run \in reruns
                                      THEN new_tasks[<<run[1], run[2]>>]
                                      ELSE pay.tasks[run]]],
                    "retry_process_commands", pay.uid, "")

NextRuns ==
    \/ ProcSetNetwork
    \/ \E other \in Peers, command \in Commands :
           ProcProcessCommand(other, command, TRUE)
    \/ \E run \in Runs : ProcTaskStart(run)
    \/ \E run \in Runs, answer \in ProcessAnswers : ProcTaskBusiness(run, answer)
    \/ \E run \in Runs, ok \in BOOLEAN : ProcTaskSent(run, ok)
    \/ ProcRetry

SpecRuns == InitProc /\ [][NextRuns]_vars

\* the requests the processor has submitted to its channels in response to
\* the command of the obligation uid
FollowUps(uid) ==
    {i \in DOMAIN pay.requests :
        /\ pay.requests[i].command.follows[1] = uid[1]
        /\ pay.requests[i].command.follows[2] = uid[2]}

\* C40: for each obligation (peer, seq) at most one follow-up command is
\* submitted to the channel, also when process_command_success_async runs
\* more than once for it and the runs interleave at the await of the
\* business call: a run that resumes after another run released the
\* obligation sequences no command.
C40_OneFollowUpPerObligation ==
    \A uid \in Uids : Cardinality(FollowUps(uid)) <= 1

\* C40 witness: a run of an obligation that another run has released, after
\* submitting its follow-up command, resumed from the business call with a
\* changed payment
C40_Witness ==
    /\ pay.op = "business" /\ pay.answer = "changed"
    /\ ~ obligation_exists(pay, pay.uid[1], pay.uid[2])
    /\ \E i \in FollowUps(pay.uid) : pay.requests[i].command.follows # pay.uid

====
